---- MODULE Spec2Model ----
(***************************************************************************)
(* Model of the python-for-android backend of bleak:                       *)
(*   - AsyncJavaCallbacks (bleak/backends/p4android/utils.py): the table   *)
(*     of futures keyed by result api, perform_and_wait and the dispatcher *)
(*     _result_state_unthreadsafe;                                         *)
(*   - _PythonBluetoothGattCallback and BleakClientP4Android               *)
(*     (bleak/backends/p4android/client.py).                               *)
(* Spec is the correlation engine alone, driven by concurrent callers of   *)
(* perform_and_wait at the call sites of client.py and by the native       *)
(* stack.  SpecClient is one BleakClientP4Android and its GATT callback    *)
(* object, driven by coroutines calling the client's methods.  SpecNative  *)
(* is the same client constructed with or without a disconnected callback, *)
(* with value-changed notifications and a record of what the callbacks     *)
(* touch on which thread.                                                  *)
(* The event loop thread runs coroutines and call_soon_threadsafe          *)
(* callbacks one at a time; the native (Java) thread runs concurrently and *)
(* only posts onto the loop's queue.                                       *)
(***************************************************************************)
EXTENDS Integers, Sequences, FiniteSets, TLC

\* ---------------------------------------------------------------- bounds
MaxTasks == 2          \* coroutines running at the same time
MaxFutures == 2        \* futures created by perform_and_wait (Spec)
MaxUnsolicited == 1    \* callbacks the stack delivers on its own (Spec)
MaxObjs == 1           \* callback objects created by connect() (SpecClient)
MaxClientFutures == 4  \* futures created by perform_and_wait (SpecClient)
MaxNotifications == 1  \* value-changed events the stack emits (SpecNative)
MaxCallers == 1        \* coroutines calling the client (SpecNative)
MaxScanners == 2       \* BleakScannerP4Android objects
MaxStarts == 2         \* calls of start() per scanner
MaxScanEvents == 2     \* callbacks of the scan the stack delivers
MaxWinTasks == 2       \* coroutines using the WinRT client
MaxTokens == 2         \* value-changed handlers registered by the WinRT client
MaxStatusChanges == 2  \* connection status changes of the WinRT device

Objs == 1..MaxObjs

Tasks == 1..MaxTasks

Callers == 1..MaxCallers

\* ------------------------------------------------------------ operation keys
KeyConn == <<"onConnectionStateChange">>
KeyDisc == <<"onServicesDiscovered">>
KeyRead == <<"onCharacteristicRead", 5>>
KeyDescWrite == <<"onDescriptorWrite", "2902">>
KeyWrite(handle) == <<"onCharacteristicWrite", handle>>
NoKey == <<>>

Keys == {KeyConn, KeyDisc, KeyRead, KeyDescWrite, KeyWrite(5), KeyWrite(6)}

\* ------------------------------------------------------------ status labels
GATT_SUCCESS == 0
GATT_ERROR == 133
GATT_UNNAMED == 25

Statuses == {GATT_SUCCESS, GATT_ERROR, GATT_UNNAMED}

NoFailure == [kind |-> "none", name |-> "", code |-> 0]

\* GATT_STATUS_NAMES[status] without the fallback to the raw code
GATT_STATUS_NAMES_NoFallback(status) ==
    IF status = 0 THEN [kind |-> "name", name |-> "GATT_SUCCESS", code |-> 0]
    ELSE [kind |-> "name", name |-> "GATT_ERROR", code |-> 0]

\* _java.GATT_STATUS_NAMES.get(status, status): the name, or the raw code
GATT_STATUS_NAMES(status) ==
    IF status = 0 THEN [kind |-> "name", name |-> "GATT_SUCCESS", code |-> 0]
    ELSE IF status = 133 THEN [kind |-> "name", name |-> "GATT_ERROR", code |-> 0]
    ELSE [kind |-> "code", name |-> "", code |-> status]

\* result_state: failure_str is None on GATT_SUCCESS, the label otherwise
FailureStr(status) ==
    IF status = GATT_SUCCESS THEN NoFailure ELSE GATT_STATUS_NAMES(status)

\* _java.CONNECTION_STATE_NAMES
CONNECTION_STATE_NAMES == {"STATE_DISCONNECTED", "STATE_CONNECTING", "STATE_CONNECTED"}

ReadValues == {"0x0102"}

\* the (status, data) pairs the callback entry points pass to result_state in
\* answer to an operation: onConnectionStateChange(status, new_state) reports a
\* failure status together with STATE_DISCONNECTED;
\* onCharacteristicRead(handle, status, value); onServicesDiscovered(status);
\* onDescriptorWrite(uuid, status)
Callbacks(api) ==
    IF api = "connectGatt"
    THEN {<<GATT_SUCCESS, <<"STATE_CONNECTED">>>>, <<GATT_SUCCESS, <<"STATE_CONNECTING">>>>,
          <<GATT_ERROR, <<"STATE_DISCONNECTED">>>>}
    ELSE IF api = "disconnect"
    THEN {<<GATT_SUCCESS, <<"STATE_DISCONNECTED">>>>}
    ELSE IF api = "readCharacteristic"
    THEN {<<status, <<v>>>> : status \in Statuses, v \in ReadValues}
    ELSE {<<GATT_SUCCESS, <<>>>>, <<GATT_ERROR, <<>>>>}

\* the callbacks the stack delivers on its own: the link is lost
LinkLoss ==
    {<<GATT_SUCCESS, <<"STATE_DISCONNECTED">>>>, <<GATT_ERROR, <<"STATE_DISCONNECTED">>>>}

\* ------------------------------------------------------------ exceptions
Exc(type, msg, source, failure, data) ==
    [type |-> type, msg |-> msg, source |-> source, failure |-> failure, data |-> data]

NoExc == Exc("none", "", NoKey, NoFailure, <<>>)

\* BleakError(source, failure_str, *data)
StatusError(source, failure, data) == Exc("BleakError", "status", source, failure, data)

\* BleakError('api call failed, not waiting for {}'.format(resultApi))
ApiCallFailed(source) == Exc("BleakError", "api call failed", source, NoFailure, <<>>)

\* BleakError('Expected', resultExpected, 'got', result)
UnexpectedResult(expected, got) == Exc("BleakError", "Expected", NoKey, NoFailure, expected \o got)

AttributeError(name) == Exc("AttributeError", name, NoKey, NoFailure, <<>>)
KeyError(name) == Exc("KeyError", name, NoKey, NoFailure, <<>>)
BleakError(msg) == Exc("BleakError", msg, NoKey, NoFailure, <<>>)
NameError(name) == Exc("NameError", name, NoKey, NoFailure, <<>>)
CancelledError == Exc("CancelledError", "", NoKey, NoFailure, <<>>)
JavaException == Exc("JavaException", "", NoKey, NoFailure, <<>>)

\* ------------------------------------------------------------ _if_expected
None == [some |-> FALSE, val |-> <<>>]
Some(v) == [some |-> TRUE, val |-> v]

\* _if_expected without the comparison of the prefix
_if_expected_unchecked(result, expected) == Some(result)

_if_expected(result, expected) ==
    IF Len(result) >= Len(expected) /\ SubSeq(result, 1, Len(expected)) = expected
    THEN Some(SubSeq(result, Len(expected) + 1, Len(result)))
    ELSE None

\* ------------------------------------------------------------ call sites
Site(api, key, expected, ua, ris) ==
    [api |-> api, key |-> key, expected |-> expected, unless_already |-> ua,
     return_indicates_status |-> ris]

SiteConnect == Site("connectGatt", KeyConn, <<"STATE_CONNECTED">>, FALSE, FALSE)
SiteDisconnect == Site("disconnect", KeyConn, <<"STATE_DISCONNECTED">>, TRUE, FALSE)
SiteDiscover == Site("discoverServices", KeyDisc, <<>>, FALSE, TRUE)
SiteRead == Site("readCharacteristic", KeyRead, <<>>, FALSE, TRUE)
SiteDescWrite == Site("writeDescriptor", KeyDescWrite, <<>>, FALSE, TRUE)
SiteWrite(handle) == Site("writeCharacteristic", KeyWrite(handle), <<>>, FALSE, TRUE)

\* the call sites the callers of Spec use
Sites == {SiteConnect, SiteDisconnect, SiteRead}

NoSite == Site("", NoKey, <<>>, FALSE, FALSE)


\* ------------------------------------------------------------ state
VARIABLES
    futs,          \* the asyncio futures created so far, by identity (1..Len(futs))
    nobjs,         \* number of AsyncJavaCallbacks objects constructed
    futures,       \* futures[c][key]: self.futures of object c, 0 when key is absent
    states,        \* states[c][key]: self.states of object c, last (failure_str, *data)
    task,          \* the coroutines: position and locals
    running,       \* the task that holds the loop thread between two awaits, or 0
    inflight,      \* native operations accepted by the stack and not yet answered
    queue,         \* the loop's call_soon_threadsafe queue of dispatcher calls
    loopErrors,    \* exceptions raised by callbacks run on the event loop thread
    unsolicited,   \* number of callbacks delivered without a native operation
    gatt,          \* BleakClientP4Android.__gatt: "None" or "gatt"
    callbacks,     \* BleakClientP4Android.__callbacks: -1 unset, 0 None, else the object
    subscriptions, \* BleakClientP4Android._subscriptions: handle -> callback, 0 absent
    hasSubs,       \* whether the attribute _subscriptions exists
    resolved,      \* BleakClientP4Android._services_resolved
    link,          \* the callback object of the gatt whose link is up, 0 when down
    notifying,     \* handles the gatt has setCharacteristicNotification enabled for
    disconnected_callback, \* BaseBleakClient._disconnected_callback: 0 None, else set
    dcalls,        \* number of calls of the disconnected callback so far
    changed,       \* value-changed events emitted whose entry point has not run yet
    nchanged,      \* number of value-changed events emitted so far
    nativeErrors,  \* exceptions raised inside a callback entry point (native thread)
    touched,       \* accesses to shared Python state made by callbacks, with their thread
    class_scanner, \* BleakScannerP4Android.__scanner (class attribute): 0 None, else the scanner
    scn,           \* the scanner objects: attributes and the position of their start()
    scanning,      \* scanners whose startScan the stack accepted and has not ended
    scanq,         \* _result_state_unthreadsafe calls the scan callbacks posted to the loop
    scanLoopErrors, \* errors the scan dispatcher raised on the event loop
    nscan,         \* number of scan callbacks delivered so far
    adapter_on,    \* BluetoothAdapter.getState() == STATE_ON
    wtask,         \* the coroutines using the WinRT client
    requester,     \* BleakClientWinRT._requester is not None
    connection_status, \* BluetoothLEDevice.connection_status
    status_token,  \* the connection status handler is registered on the device
    winrt_disconnected_callback, \* BleakClientWinRT._disconnected_callback: 0 None
    dstatuses,     \* the statuses the disconnected callback was called for
    services_resolved, \* BleakClientWinRT._services_resolved
    everResolved,  \* a caller can hold a characteristic object of this client
    disposed,      \* the native services of the characteristic objects are closed
    notification_callbacks, \* BleakClientWinRT._notification_callbacks: handle -> token, 0 absent
    value_changed, \* tokens of the handlers registered on the native characteristic
    ntokens,       \* number of handlers registered so far
    nstatus,       \* number of connection status changes so far
    properties,    \* characteristic.properties of each handle (p4android)
    write_type     \* the write type set on each Java characteristic object

coreVars == <<futs, nobjs, futures, states, task, running, inflight, queue,
              loopErrors, unsolicited>>
clientVars == <<gatt, callbacks, subscriptions, hasSubs, resolved, link, notifying>>
threadVars == <<disconnected_callback, dcalls, changed, nchanged, nativeErrors, touched>>
scannerVars == <<class_scanner, scn, scanning, scanq, scanLoopErrors, nscan, adapter_on>>
winrtVars == <<wtask, requester, connection_status, status_token,
               winrt_disconnected_callback, dstatuses, services_resolved, everResolved,
               disposed, notification_callbacks, value_changed, ntokens, nstatus>>
writeVars == <<properties, write_type>>
otherVars == <<scannerVars, winrtVars, writeVars>>
vars == <<coreVars, clientVars, threadVars, scannerVars, winrtVars, writeVars>>

Handles == {5, 6}
UserCallbacks == {1, 2}

NewFuture(c, key) ==
    [st |-> "pending", res |-> <<>>, exc |-> NoExc, cb |-> c, key |-> key, by |-> 0]

NoState == [set |-> FALSE, failure |-> NoFailure, data |-> <<>>]

NoOut == [kind |-> "none", val |-> <<>>, exc |-> NoExc]
Return(v) == [kind |-> "return", val |-> v, exc |-> NoExc]
Raise(e) == [kind |-> "raise", val |-> <<>>, exc |-> e]

\* a coroutine that has not called anything yet
IdleTask ==
    [pc |-> "idle", op |-> "", step |-> 0, handle |-> 0, ucb |-> 0,
     cb |-> 0, site |-> NoSite, fut |-> 0, result1 |-> "", ret |-> "",
     calls |-> 0, fast |-> FALSE, conc |-> {}, response |-> FALSE, out |-> NoOut]

\* AsyncJavaCallbacks.__init__ for every object, none constructed yet
InitTables ==
    /\ futs = <<>>
    /\ futures = [c \in Objs |-> [k \in Keys |-> 0]]
    /\ states = [c \in Objs |-> [k \in Keys |-> NoState]]
    /\ task = [t \in Tasks |-> IdleTask]
    /\ running = 0
    /\ inflight = <<>>
    /\ queue = <<>>
    /\ loopErrors = {}
    /\ unsolicited = 0

\* BleakClientP4Android.__init__: __callbacks and _subscriptions are first
\* assigned by connect()
InitClientVars ==
    /\ gatt = "None"
    /\ callbacks = -1
    /\ subscriptions = [h \in Handles |-> 0]
    /\ hasSubs = FALSE
    /\ resolved = FALSE
    /\ link = 0
    /\ notifying = [h \in Handles |-> FALSE]

\* nothing has been called back yet
InitThreadVars ==
    /\ dcalls = 0
    /\ changed = [h \in Handles |-> 0]
    /\ nchanged = 0
    /\ nativeErrors = {}
    /\ touched = {}

Scanners == 1..MaxScanners
WinTasks == 1..MaxWinTasks

\* what a call of a scanner or WinRT client method handed back
NoResult == [kind |-> "none", msg |-> ""]
Returned(v) == [kind |-> "return", msg |-> v]
Raised(type, msg) == [kind |-> type, msg |-> msg]

\* BleakScannerP4Android.__init__, lines 63-74; fut is futures['onScan'] of its
\* callback object, seen is 'onScan' in its states, called is the method the
\* user called last
NewScanner ==
    [pc |-> "idle", javascanner |-> FALSE, callback |-> FALSE, fut |-> "none",
     failure |-> "", seen |-> FALSE, devices |-> FALSE, starts |-> 0, called |-> "",
     out |-> NoResult]

\* the class attribute __scanner = None and the scanners constructed
InitScannerVars ==
    /\ class_scanner = 0
    /\ scn = [s \in Scanners |-> NewScanner]
    /\ scanning = {}
    /\ scanq = <<>>
    /\ scanLoopErrors = {}
    /\ nscan = 0

\* a coroutine that has not called a method of the WinRT client yet
IdleWinTask == [pc |-> "idle", op |-> "", handle |-> 0, out |-> NoResult]

\* BleakClientWinRT.__init__, lines 65-82
InitWinRTVars ==
    /\ wtask = [t \in WinTasks |-> IdleWinTask]
    /\ requester = FALSE
    /\ connection_status = "DISCONNECTED"
    /\ status_token = FALSE
    /\ winrt_disconnected_callback = 0
    /\ dstatuses = {}
    /\ services_resolved = FALSE
    /\ everResolved = FALSE
    /\ disposed = FALSE
    /\ notification_callbacks = [h \in Handles |-> 0]
    /\ value_changed = [h \in Handles |-> {}]
    /\ ntokens = 0
    /\ nstatus = 0

\* the properties a characteristic can have for write_gatt_char, of
\* CHARACTERISTIC_PROPERTY_DBUS_NAMES (characteristic.py 19-20)
WriteProperties == {"write", "write-without-response"}

\* the characteristics of the peripheral can be written either way; no write
\* type has been set on the Java objects
InitWriteVars ==
    /\ properties = [h \in Handles |-> WriteProperties]
    /\ write_type = [h \in Handles |-> "unset"]

\* no scanner and no WinRT client is used
InitOtherVars ==
    /\ InitScannerVars
    /\ adapter_on = TRUE
    /\ InitWinRTVars
    /\ InitWriteVars

\* future.done()
Done(f) == futs[f].st # "pending"

\* bool(result2) of a tuple
Bool(tuple) == IF Len(tuple) > 0 THEN "True" ELSE "False"

\* lines 51-54: the value perform_and_wait returns
ReturnValue(site, result1, result2) ==
    IF site.return_indicates_status THEN result2 ELSE <<result1>> \o result2

\* line 28-30: unless_already and resultApi in self.futures and state.done()
FoundDone(c, site) ==
    /\ site.unless_already
    /\ futures[c][site.key] # 0
    /\ Done(futures[c][site.key])

\* what dispatchApi can do: accept the operation and return a true value
\* (BluetoothDevice.connectGatt returns the gatt object), accept it and return
\* nothing (BluetoothGatt.disconnect is void), return false, or throw
NativeOutcomes(site) ==
    IF site.api = "connectGatt" THEN {"accept", "throw"}
    ELSE IF site.api = "disconnect" THEN {"void", "throw"}
    ELSE {"accept", "reject", "throw"}

Accepted(ret) == ret \in {"accept", "void"}
Result1(ret) == IF ret = "accept" THEN "True" ELSE IF ret = "void" THEN "None" ELSE "False"
Truthy(result1) == result1 = "True"

\* the invocations of perform_and_wait that have started and not finished
InProgress == {u \in Tasks : task[u].pc \in {"incall", "await"}}

\* who holds the loop thread when perform_and_wait hands control back to
\* task t: the caller's code runs on to its next await; the callers of Spec
\* have none
Hold(op, t) == IF op = "paw" THEN 0 ELSE t


\* ------------------------------------------------------------ perform_and_wait
\* lines 27-41, called on object c by task t whose frame becomes fr, up to the
\* moment dispatchApi is entered
perform_and_wait(t, c, site, fr, maxf) ==
    LET f == futures[c][site.key]
        frame == [fr EXCEPT !.cb = c, !.site = site, !.fut = 0, !.result1 = "",
                            !.ret = "", !.calls = 0, !.fast = FALSE,
                            !.conc = InProgress, !.out = NoOut] IN
    /\ IF FoundDone(c, site) /\ futs[f].st # "result"
       THEN \* state.result() re-raises the outcome stored in the done future
            /\ task' = [task EXCEPT ![t] =
                   [frame EXCEPT !.pc = "done",
                                 !.out = Raise(IF futs[f].st = "exception"
                                               THEN futs[f].exc ELSE CancelledError)]]
            /\ running' = Hold(fr.op, t)
            /\ UNCHANGED <<futs, futures, inflight>>
       ELSE IF FoundDone(c, site) /\ _if_expected(futs[f].res, site.expected).some
       THEN \* line 34-35: not waiting
            LET result2 == _if_expected(futs[f].res, site.expected).val IN
            /\ task' = [task EXCEPT ![t] =
                   [frame EXCEPT !.pc = "done", !.fast = TRUE,
                                 !.out = Return(ReturnValue(site, Bool(result2), result2))]]
            /\ running' = Hold(fr.op, t)
            /\ UNCHANGED <<futs, futures, inflight>>
       ELSE \* lines 39-41
            /\ Len(futs) < maxf
            /\ \E ret \in NativeOutcomes(site) :
                 /\ futs' = Append(futs, NewFuture(c, site.key))
                 /\ futures' = [futures EXCEPT ![c][site.key] = Len(futs) + 1]
                 /\ inflight' = IF Accepted(ret)
                                THEN Append(inflight, [api |-> site.api, cb |-> c,
                                                       key |-> site.key,
                                                       id |-> Len(futs) + 1])
                                ELSE inflight
                 /\ task' = [task EXCEPT ![t] =
                        [frame EXCEPT !.pc = "incall", !.fut = Len(futs) + 1,
                                      !.ret = ret, !.calls = 1]]
                 /\ running' = t
    /\ UNCHANGED <<states, queue, loopErrors, unsolicited>>

\* lines 41-45: dispatchApi returns (or throws) and the coroutine reaches the await
PawReturn(t) ==
    /\ task[t].pc = "incall"
    /\ running = t
    /\ LET fr == task[t] IN
       IF fr.ret = "throw"
       THEN /\ task' = [task EXCEPT ![t] =
                   [@ EXCEPT !.pc = "done", !.ret = "", !.out = Raise(JavaException)]]
            /\ running' = Hold(fr.op, t)
            /\ UNCHANGED futures
       ELSE IF fr.site.return_indicates_status /\ ~Truthy(Result1(fr.ret))
       THEN /\ futures' = [futures EXCEPT ![fr.cb][fr.site.key] = 0]
            /\ task' = [task EXCEPT ![t] =
                   [@ EXCEPT !.pc = "done", !.ret = "",
                             !.out = Raise(ApiCallFailed(fr.site.key))]]
            /\ running' = Hold(fr.op, t)
       ELSE /\ task' = [task EXCEPT ![t] =
                   [@ EXCEPT !.pc = "await", !.ret = "", !.result1 = Result1(fr.ret)]]
            /\ running' = 0
            /\ UNCHANGED futures
    /\ UNCHANGED <<futs, nobjs, states, inflight, queue, loopErrors, unsolicited>>
    /\ UNCHANGED clientVars
    /\ UNCHANGED threadVars
    /\ UNCHANGED otherVars

\* lines 45-54: the awaited future is done and the coroutine resumes
PawResume(t) ==
    /\ task[t].pc = "await"
    /\ running = 0
    /\ Done(task[t].fut)
    /\ LET fr == task[t]
           f == futs[fr.fut]
           result2 == _if_expected(f.res, fr.site.expected) IN
       task' = [task EXCEPT ![t] =
           [@ EXCEPT !.pc = "done", !.result1 = "",
                     !.out = IF f.st = "exception" THEN Raise(f.exc)
                             ELSE IF f.st = "cancelled" THEN Raise(CancelledError)
                             ELSE IF ~result2.some THEN Raise(NameError("result"))
                             ELSE Return(ReturnValue(fr.site, fr.result1, result2.val))]]
    /\ running' = Hold(task[t].op, t)
    /\ UNCHANGED <<futs, nobjs, futures, states, inflight, queue, loopErrors, unsolicited>>
    /\ UNCHANGED clientVars
    /\ UNCHANGED threadVars
    /\ UNCHANGED otherVars

\* a caller of Spec enters perform_and_wait on the one callback object
PawEnter(t, site) ==
    /\ task[t].pc = "idle"
    /\ \A u \in Tasks : u < t => task[u].pc # "idle"   \* tasks are numbered as they start
    /\ running = 0
    /\ perform_and_wait(t, 1, site, [IdleTask EXCEPT !.op = "paw"], MaxFutures)
    /\ UNCHANGED nobjs
    /\ UNCHANGED clientVars
    /\ UNCHANGED threadVars
    /\ UNCHANGED otherVars

\* the awaiting task is cancelled (asyncio.wait_for timing out, task.cancel()):
\* asyncio cancels the future the task is blocked on
PawCancel(t) ==
    /\ task[t].pc = "await"
    /\ task[t].op = "paw"
    /\ running = 0
    /\ ~Done(task[t].fut)
    /\ futs' = [futs EXCEPT ![task[t].fut] = [@ EXCEPT !.st = "cancelled"]]
    /\ task' = [task EXCEPT ![t] =
           [@ EXCEPT !.pc = "done", !.result1 = "", !.out = Raise(CancelledError)]]
    /\ UNCHANGED <<nobjs, futures, states, running, inflight, queue, loopErrors, unsolicited>>
    /\ UNCHANGED clientVars
    /\ UNCHANGED threadVars
    /\ UNCHANGED otherVars

\* ------------------------------------------------------------ native thread
\* a call posted with call_soon_threadsafe: fn = 0 is _result_state_unthreadsafe,
\* any other fn is a user's notification callback; thread is where it will run
Event(c, status, failure, source, data, op, fn, thread) ==
    [cb |-> c, status |-> status, failure |-> failure, source |-> source,
     data |-> data, op |-> op, fn |-> fn, thread |-> thread]

\* an access to shared Python state made by a callback
Touch(obj, mode, thread) == [obj |-> obj, mode |-> mode, thread |-> thread]

\* _PythonBluetoothGattCallback.result_state of object c: translate the status
\* and post _result_state_unthreadsafe onto the loop
\* result_state calling _result_state_unthreadsafe itself, on the native thread
result_state_unposted(c, status, resultApi, data, op) ==
    queue' = Append(queue, Event(c, status, FailureStr(status), resultApi, data, op,
                                 0, "native"))

result_state(c, status, resultApi, data, op) ==
    queue' = Append(queue, Event(c, status, FailureStr(status), resultApi, data, op,
                                 0, "loop"))

\* lines 728-729: the calls of the disconnected callback onConnectionStateChange makes
DisconnectedCallsNone(state) == 0

DisconnectedCalls(state) ==
    IF state = <<"STATE_DISCONNECTED">> /\ disconnected_callback # 0 THEN 1 ELSE 0

\* _PythonBluetoothGattCallback.onConnectionStateChange(status, new_state) of
\* object c, run by the native thread
onConnectionStateChange(c, status, state, op) ==
    /\ result_state(c, status, KeyConn, state, op)
    /\ dcalls' = dcalls + DisconnectedCalls(state)
    /\ touched' = touched
           \cup (IF state = <<"STATE_DISCONNECTED">>
                 THEN {Touch("disconnected_callback", "read", "native")} ELSE {})
           \cup (IF DisconnectedCalls(state) > 0
                 THEN {Touch("disconnected_callback", "call", "native")} ELSE {})

\* index of the oldest accepted operation for key k, 0 when there is none
FirstInflight(k) ==
    IF \E i \in 1..Len(inflight) : inflight[i].key = k
    THEN CHOOSE i \in 1..Len(inflight) :
             /\ inflight[i].key = k
             /\ \A j \in 1..(i - 1) : inflight[j].key # k
    ELSE 0

RemoveAt(seq, i) == SubSeq(seq, 1, i - 1) \o SubSeq(seq, i + 1, Len(seq))

\* the native stack answers the oldest accepted operation of key k with the
\* callback cb = (status, data): onConnectionStateChange, onServicesDiscovered,
\* onCharacteristicRead or onDescriptorWrite calls result_state
NativeAnswer(k, cb) ==
    /\ FirstInflight(k) # 0
    /\ cb \in Callbacks(inflight[FirstInflight(k)].api)
    /\ LET o == inflight[FirstInflight(k)] IN
       IF k = KeyConn
       THEN onConnectionStateChange(o.cb, cb[1], cb[2], o.id)
       ELSE result_state(o.cb, cb[1], k, cb[2], o.id) /\ UNCHANGED <<dcalls, touched>>
    /\ inflight' = RemoveAt(inflight, FirstInflight(k))
    /\ UNCHANGED <<futs, nobjs, futures, states, task, running, loopErrors, unsolicited>>
    /\ UNCHANGED <<disconnected_callback, changed, nchanged, nativeErrors>>
    /\ UNCHANGED otherVars

AllCallbacks ==
    {<<status, data>> : status \in Statuses,
                        data \in {<<>>} \cup {<<s>> : s \in CONNECTION_STATE_NAMES \cup ReadValues}}

NativeCallback(k) ==
    /\ \E cb \in AllCallbacks : NativeAnswer(k, cb)
    /\ UNCHANGED clientVars

\* onConnectionStateChange called for a state change nothing asked for
NativeUnsolicited ==
    /\ unsolicited < MaxUnsolicited
    /\ unsolicited' = unsolicited + 1
    /\ \E cb \in LinkLoss : onConnectionStateChange(1, cb[1], cb[2], 0)
    /\ UNCHANGED <<futs, nobjs, futures, states, task, running, inflight, loopErrors>>
    /\ UNCHANGED clientVars
    /\ UNCHANGED <<disconnected_callback, changed, nchanged, nativeErrors>>
    /\ UNCHANGED otherVars

\* ------------------------------------------------------------ dispatcher
\* futures of object c that are not done (line 68)
namedfutures(c) == {k \in Keys : futures[c][k] # 0 /\ ~Done(futures[c][k])}

\* future.set_result(data)
set_result(f, data, op) ==
    [futs EXCEPT ![f] = [@ EXCEPT !.st = "result", !.res = data, !.by = op]]

\* future.set_exception(exception)
set_exception(f, exception, op) ==
    [futs EXCEPT ![f] = [@ EXCEPT !.st = "exception", !.exc = exception, !.by = op]]

\* line 59 without the test of future.done()
SlotWaitingNoDoneTest(c, source) == futures[c][source] # 0

\* the condition of line 59
SlotWaiting(c, source) == futures[c][source] # 0 /\ ~Done(futures[c][source])

\* lines 67-77 with the module warnings imported: the error is set on every
\* future that is not done
RedirectWithWarnings(ev) ==
    IF namedfutures(ev.cb) # {}
    THEN /\ futs' = [f \in 1..Len(futs) |->
                        IF \E k \in namedfutures(ev.cb) : futures[ev.cb][k] = f
                        THEN [futs[f] EXCEPT !.st = "exception",
                                             !.exc = StatusError(ev.source, ev.failure, ev.data),
                                             !.by = ev.op]
                        ELSE futs[f]]
         /\ UNCHANGED loopErrors
    ELSE /\ loopErrors' = loopErrors \cup {StatusError(ev.source, ev.failure, ev.data)}
         /\ UNCHANGED futs

\* lines 67-77, an error with nothing waiting for it: line 72 names the module
\* warnings, which utils.py never imports, so the redirect loop stops with a
\* NameError at its first statement; with no pending future the error itself
\* is raised on the event loop
Redirect(ev) ==
    /\ loopErrors' = loopErrors \cup
           {IF namedfutures(ev.cb) # {} THEN NameError("warnings")
            ELSE StatusError(ev.source, ev.failure, ev.data)}
    /\ UNCHANGED futs

\* AsyncJavaCallbacks._result_state_unthreadsafe(failure_str, source, data)
_result_state_unthreadsafe(ev) ==
    /\ states' = [states EXCEPT ![ev.cb][ev.source] =
                     [set |-> TRUE, failure |-> ev.failure, data |-> ev.data]]
    /\ touched' = touched \cup {Touch("states", "write", ev.thread)}
           \cup (IF SlotWaiting(ev.cb, ev.source)
                 THEN {Touch("futures", "write", ev.thread)} ELSE {})
    /\ IF SlotWaiting(ev.cb, ev.source)
       THEN /\ futs' = IF ev.failure = NoFailure
                       THEN set_result(futures[ev.cb][ev.source], ev.data, ev.op)
                       ELSE set_exception(futures[ev.cb][ev.source],
                                          StatusError(ev.source, ev.failure, ev.data), ev.op)
            /\ UNCHANGED loopErrors
       ELSE IF ev.failure # NoFailure
       THEN Redirect(ev)
       ELSE UNCHANGED <<futs, loopErrors>>

\* the loop runs the next call posted with call_soon_threadsafe: the dispatcher,
\* or the notification callback onCharacteristicChanged posted
LoopRun ==
    /\ running = 0
    /\ queue # <<>>
    /\ queue' = Tail(queue)
    /\ IF Head(queue).fn = 0
       THEN _result_state_unthreadsafe(Head(queue))
       ELSE /\ touched' = touched \cup
                   {Touch("notification callback", "call", Head(queue).thread)}
            /\ UNCHANGED <<futs, states, loopErrors>>
    /\ UNCHANGED <<nobjs, futures, task, running, inflight, unsolicited>>
    /\ UNCHANGED clientVars
    /\ UNCHANGED <<disconnected_callback, dcalls, changed, nchanged, nativeErrors>>
    /\ UNCHANGED otherVars

\* ------------------------------------------------------------ specification
\* one AsyncJavaCallbacks object, constructed
Init ==
    /\ InitTables
    /\ nobjs = 1
    /\ InitClientVars
    /\ InitThreadVars
    /\ disconnected_callback = 0
    /\ InitOtherVars

Next ==
    \/ \E t \in Tasks, site \in Sites : PawEnter(t, site)
    \/ \E t \in Tasks : PawReturn(t)
    \/ \E t \in Tasks : PawResume(t)
    \/ \E t \in Tasks : PawCancel(t)
    \/ \E k \in Keys : NativeCallback(k)
    \/ NativeUnsolicited
    \/ LoopRun

Spec == Init /\ [][Next]_vars


\* ============================================================ the client
\* The characteristic objects are the ones client.py expects: they carry the
\* handle the Java callbacks report and the descriptor (uuid 2902) that
\* switches notifications.

\* a client method of task t hands back out: the coroutine is finished
OpDone(t, out) ==
    /\ task' = [task EXCEPT ![t] = [IdleTask EXCEPT !.op = task[t].op, !.out = out]]
    /\ running' = 0

\* a client method starts on the loop thread
CanStart(t) ==
    /\ task[t].pc = "idle"
    /\ running = 0
    /\ \A u \in Tasks : u < t => task[u].op # ""   \* tasks are numbered as they start

\* the client's code runs on after perform_and_wait handed back
Continues(t, op, step) ==
    /\ task[t].op = op
    /\ task[t].step = step
    /\ task[t].pc = "done"
    /\ running = t

Frame(op, step, h, u) ==
    [IdleTask EXCEPT !.op = op, !.step = step, !.handle = h, !.ucb = u]

NoSubscriptions == [h \in Handles |-> 0]

\* connect(), lines 159-179
Connect(t) ==
    /\ CanStart(t)
    /\ nobjs < MaxObjs
    /\ \E adapterOn \in BOOLEAN :
         IF ~adapterOn
         THEN /\ task' = [task EXCEPT ![t] =
                     [IdleTask EXCEPT !.op = "connect",
                                      !.out = Raise(BleakError("Bluetooth is not turned on"))]]
              /\ UNCHANGED <<futs, nobjs, futures, states, running, inflight, queue,
                             loopErrors, unsolicited, callbacks>>
         ELSE /\ nobjs' = nobjs + 1
              /\ callbacks' = nobjs + 1
              /\ perform_and_wait(t, nobjs + 1, SiteConnect,
                                  Frame("connect", 1, 0, 0), MaxClientFutures)
    /\ UNCHANGED <<gatt, subscriptions, hasSubs, resolved, link, notifying>>
    /\ UNCHANGED threadVars
    /\ UNCHANGED otherVars

\* connect(), lines 173-189: the gatt is stored, the registry is reset and
\* discoverServices is issued
ConnectConnected(t) ==
    /\ Continues(t, "connect", 1)
    /\ IF task[t].out.kind = "raise"
       THEN /\ OpDone(t, task[t].out)
            /\ UNCHANGED <<futs, futures, inflight, states, queue, loopErrors, unsolicited,
                           gatt, subscriptions, hasSubs, notifying>>
       ELSE /\ gatt' = "gatt"
            /\ notifying' = [h \in Handles |-> FALSE]   \* a new BluetoothGatt object
            /\ subscriptions' = NoSubscriptions
            /\ hasSubs' = TRUE
            /\ IF callbacks = 0
               THEN /\ OpDone(t, Raise(AttributeError("perform_and_wait")))
                    /\ UNCHANGED <<futs, futures, inflight, states, queue, loopErrors,
                                   unsolicited>>
               ELSE perform_and_wait(t, callbacks, SiteDiscover,
                                     Frame("connect", 2, 0, 0), MaxClientFutures)
    /\ UNCHANGED <<nobjs, callbacks, resolved, link>>
    /\ UNCHANGED threadVars
    /\ UNCHANGED otherVars

\* connect(), lines 185-192, and get_services(), lines 317-349
ConnectDiscovered(t) ==
    /\ Continues(t, "connect", 2)
    /\ IF task[t].out.kind = "raise"
       THEN OpDone(t, task[t].out) /\ UNCHANGED resolved
       ELSE IF gatt = "None"
       THEN OpDone(t, Raise(AttributeError("getServices"))) /\ UNCHANGED resolved
       ELSE OpDone(t, Return(<<"True">>)) /\ resolved' = TRUE
    /\ UNCHANGED <<futs, nobjs, futures, states, inflight, queue, loopErrors, unsolicited>>
    /\ UNCHANGED <<gatt, callbacks, subscriptions, hasSubs, link, notifying>>
    /\ UNCHANGED threadVars
    /\ UNCHANGED otherVars

\* is_connected(), lines 303-306, when states has no entry for the key
is_connected_KeyError ==
    callbacks > 0 /\ ~states[callbacks][KeyConn].set

\* is_connected(), lines 303-306
is_connected ==
    /\ callbacks > 0
    /\ states[callbacks][KeyConn].data = <<"STATE_DISCONNECTED">>

\* disconnect(), lines 222-232
disconnect_tail(t) ==
    IF is_connected_KeyError
    THEN /\ OpDone(t, Raise(KeyError("onConnectionStateChange")))
         /\ UNCHANGED <<gatt, callbacks, resolved>>
    ELSE IF ~is_connected
    THEN /\ gatt' = "None"
         /\ callbacks' = 0
         /\ resolved' = FALSE
         /\ OpDone(t, Return(<<"True">>))
    ELSE /\ OpDone(t, Return(<<"False">>))
         /\ UNCHANGED <<gatt, callbacks, resolved>>

\* disconnect(), lines 201-217
Disconnect(t) ==
    /\ CanStart(t)
    /\ IF gatt = "None"
       THEN /\ task' = [task EXCEPT ![t] =
                   [IdleTask EXCEPT !.op = "disconnect", !.out = Return(<<"True">>)]]
            /\ UNCHANGED <<futs, futures, inflight, running, states, queue, loopErrors,
                           unsolicited, gatt, callbacks, resolved>>
       ELSE IF callbacks = 0
       THEN \* the AttributeError is caught by the except clause of line 219
            /\ gatt' = "None"
            /\ resolved' = FALSE
            /\ task' = [task EXCEPT ![t] =
                   [IdleTask EXCEPT !.op = "disconnect", !.out = Return(<<"True">>)]]
            /\ UNCHANGED <<futs, futures, inflight, running, states, queue, loopErrors,
                           unsolicited, callbacks>>
       ELSE /\ perform_and_wait(t, callbacks, SiteDisconnect,
                                Frame("disconnect", 1, 0, 0), MaxClientFutures)
            /\ UNCHANGED <<gatt, callbacks, resolved>>
    /\ UNCHANGED <<nobjs, subscriptions, hasSubs, link, notifying>>
    /\ UNCHANGED threadVars
    /\ UNCHANGED otherVars

\* disconnect(), lines 218-232: gatt.close() when perform_and_wait returned,
\* any Exception is logged, then the session is reset if is_connected() is false
DisconnectDone(t) ==
    /\ Continues(t, "disconnect", 1)
    /\ link' = IF task[t].out.kind = "return" /\ gatt # "None" THEN 0 ELSE link
    /\ disconnect_tail(t)
    /\ UNCHANGED <<futs, nobjs, futures, states, inflight, queue, loopErrors, unsolicited>>
    /\ UNCHANGED <<subscriptions, hasSubs, notifying>>
    /\ UNCHANGED threadVars
    /\ UNCHANGED otherVars

\* is_connected(), lines 296-306: a coroutine without an await; __callbacks is
\* first assigned by connect(), and states has no entry before the first
\* connection state change was dispatched
IsConnected(t) ==
    /\ CanStart(t)
    /\ task' = [task EXCEPT ![t] =
           [IdleTask EXCEPT !.op = "is_connected",
                            !.out = IF callbacks = -1
                                    THEN Raise(AttributeError("__callbacks"))
                                    ELSE IF is_connected_KeyError
                                    THEN Raise(KeyError("onConnectionStateChange"))
                                    ELSE IF is_connected THEN Return(<<"True">>)
                                    ELSE Return(<<"False">>)]]
    /\ UNCHANGED <<futs, nobjs, futures, states, running, inflight, queue, loopErrors,
                   unsolicited>>
    /\ UNCHANGED clientVars
    /\ UNCHANGED threadVars
    /\ UNCHANGED otherVars


\* write_gatt_descriptor(), lines 516-530, called by start_notify and stop_notify
write_gatt_descriptor(t, fr) ==
    IF callbacks = 0
    THEN /\ OpDone(t, Raise(AttributeError("perform_and_wait")))
         /\ UNCHANGED <<futs, futures, inflight, states, queue, loopErrors, unsolicited>>
    ELSE perform_and_wait(t, callbacks, SiteDescWrite, fr, MaxClientFutures)

\* a client method raises e before it reaches any await
RaisesAtOnce(t, op, e) ==
    /\ task' = [task EXCEPT ![t] = [IdleTask EXCEPT !.op = op, !.out = Raise(e)]]
    /\ UNCHANGED <<futs, futures, inflight, running, states, queue, loopErrors, unsolicited>>

\* start_notify(char_specifier, callback), lines 559-580
StartNotify(t, h, u) ==
    /\ CanStart(t)
    /\ IF ~resolved
       THEN RaisesAtOnce(t, "start_notify", BleakError("could not be found"))
            /\ UNCHANGED <<subscriptions, notifying>>
       ELSE IF ~hasSubs
       THEN RaisesAtOnce(t, "start_notify", AttributeError("_subscriptions"))
            /\ UNCHANGED <<subscriptions, notifying>>
       ELSE /\ subscriptions' = [subscriptions EXCEPT ![h] = u]
            /\ IF gatt = "None"
               THEN /\ RaisesAtOnce(t, "start_notify",
                                    AttributeError("setCharacteristicNotification"))
                    /\ UNCHANGED notifying
               ELSE \E enabled \in BOOLEAN :
                      IF ~enabled
                      THEN /\ RaisesAtOnce(t, "start_notify",
                                           BleakError("Failed to enable notification"))
                           /\ UNCHANGED notifying
                      ELSE /\ notifying' = [notifying EXCEPT ![h] = TRUE]
                           /\ write_gatt_descriptor(t, Frame("start_notify", 1, h, u))
    /\ UNCHANGED <<nobjs, gatt, callbacks, hasSubs, resolved, link>>
    /\ UNCHANGED threadVars
    /\ UNCHANGED otherVars

\* start_notify(), line 580: write_gatt_descriptor returned or raised
StartNotifyDone(t) ==
    /\ Continues(t, "start_notify", 1)
    /\ OpDone(t, IF task[t].out.kind = "raise" THEN task[t].out ELSE Return(<<>>))
    /\ UNCHANGED <<futs, nobjs, futures, states, inflight, queue, loopErrors, unsolicited>>
    /\ UNCHANGED clientVars
    /\ UNCHANGED threadVars
    /\ UNCHANGED otherVars

\* stop_notify(char_specifier), lines 594-601
StopNotify(t, h) ==
    /\ CanStart(t)
    /\ IF ~resolved
       THEN RaisesAtOnce(t, "stop_notify", BleakError("not found"))
       ELSE write_gatt_descriptor(t, Frame("stop_notify", 1, h, 0))
    /\ UNCHANGED <<nobjs>>
    /\ UNCHANGED clientVars
    /\ UNCHANGED threadVars
    /\ UNCHANGED otherVars

\* stop_notify(), lines 601-609
StopNotifyDone(t) ==
    /\ Continues(t, "stop_notify", 1)
    /\ IF task[t].out.kind = "raise"
       THEN OpDone(t, task[t].out) /\ UNCHANGED <<subscriptions, notifying>>
       ELSE IF gatt = "None"
       THEN /\ OpDone(t, Raise(AttributeError("setCharacteristicNotification")))
            /\ UNCHANGED <<subscriptions, notifying>>
       ELSE \E disabled \in BOOLEAN :
              IF ~disabled
              THEN /\ OpDone(t, Raise(BleakError("Failed to disable notification")))
                   /\ UNCHANGED <<subscriptions, notifying>>
              ELSE /\ notifying' = [notifying EXCEPT ![task[t].handle] = FALSE]
                   /\ IF subscriptions[task[t].handle] = 0
                      THEN /\ OpDone(t, Raise(KeyError("handle")))
                           /\ UNCHANGED subscriptions
                      ELSE /\ subscriptions' = [subscriptions EXCEPT ![task[t].handle] = 0]
                           /\ OpDone(t, Return(<<>>))
    /\ UNCHANGED <<futs, nobjs, futures, states, inflight, queue, loopErrors, unsolicited>>
    /\ UNCHANGED <<gatt, callbacks, hasSubs, resolved, link>>
    /\ UNCHANGED threadVars
    /\ UNCHANGED otherVars

\* the stack answers an operation of the client: the callbacks of lines
\* 721-757; a connection state change moves the link
GattCallback(k) ==
    /\ \E cb \in AllCallbacks :
         /\ NativeAnswer(k, cb)
         /\ link' = IF k # KeyConn THEN link
                    ELSE IF cb[2] = <<"STATE_CONNECTED">>
                    THEN inflight[FirstInflight(k)].cb
                    ELSE 0
    /\ UNCHANGED <<gatt, callbacks, subscriptions, hasSubs, resolved, notifying>>

\* the link is lost: onConnectionStateChange(status, STATE_DISCONNECTED), lines
\* 722-727, on the callback object the gatt was connected with
GattLinkLoss ==
    /\ link # 0
    /\ \E cb \in LinkLoss : onConnectionStateChange(link, cb[1], cb[2], 0)
    /\ link' = 0
    /\ UNCHANGED <<futs, nobjs, futures, states, task, running, inflight, loopErrors,
                   unsolicited>>
    /\ UNCHANGED <<gatt, callbacks, subscriptions, hasSubs, resolved, notifying>>
    /\ UNCHANGED <<disconnected_callback, changed, nchanged, nativeErrors>>
    /\ UNCHANGED otherVars

\* the peripheral changes the value of a characteristic the gatt has
\* notifications enabled for: the stack will call onCharacteristicChanged
ValueChanged(h) ==
    /\ link # 0
    /\ notifying[h]
    /\ nchanged < MaxNotifications
    /\ nchanged' = nchanged + 1
    /\ changed' = [changed EXCEPT ![h] = @ + 1]
    /\ UNCHANGED coreVars
    /\ UNCHANGED clientVars
    /\ UNCHANGED <<disconnected_callback, dcalls, nativeErrors, touched>>
    /\ UNCHANGED otherVars

\* _PythonBluetoothGattCallback.onCharacteristicChanged(handle, value), lines
\* 735-741, run by the native thread: the callback is looked up in the client's
\* _subscriptions and posted onto the loop
onCharacteristicChanged(h) ==
    /\ changed[h] > 0
    /\ changed' = [changed EXCEPT ![h] = @ - 1]
    /\ touched' = touched \cup {Touch("subscriptions", "read", "native")}
    /\ IF ~hasSubs
       THEN /\ nativeErrors' = nativeErrors \cup {AttributeError("_subscriptions")}
            /\ UNCHANGED queue
       ELSE IF subscriptions[h] = 0
       THEN /\ nativeErrors' = nativeErrors \cup {KeyError("handle")}
            /\ UNCHANGED queue
       ELSE /\ queue' = Append(queue, Event(callbacks, GATT_SUCCESS, NoFailure,
                                            <<"onCharacteristicChanged", h>>,
                                            <<"0x0102">>, 0, subscriptions[h], "loop"))
            /\ UNCHANGED nativeErrors
    /\ UNCHANGED <<futs, nobjs, futures, states, task, running, inflight, loopErrors,
                   unsolicited>>
    /\ UNCHANGED clientVars
    /\ UNCHANGED <<disconnected_callback, dcalls, nchanged>>
    /\ UNCHANGED otherVars

\* BleakClientP4Android.__init__: no callback object exists yet
InitClient ==
    /\ InitTables
    /\ nobjs = 0
    /\ InitClientVars
    /\ InitThreadVars
    /\ disconnected_callback = 0
    /\ InitOtherVars

NextClient ==
    \/ \E t \in Tasks : Connect(t)
    \/ \E t \in Tasks : ConnectConnected(t)
    \/ \E t \in Tasks : ConnectDiscovered(t)
    \/ \E t \in Tasks : Disconnect(t)
    \/ \E t \in Tasks : DisconnectDone(t)
    \/ \E t \in Tasks, h \in Handles, u \in UserCallbacks : StartNotify(t, h, u)
    \/ \E t \in Tasks : StartNotifyDone(t)
    \/ \E t \in Tasks, h \in Handles : StopNotify(t, h)
    \/ \E t \in Tasks : StopNotifyDone(t)
    \/ \E t \in Tasks : PawReturn(t)
    \/ \E t \in Tasks : PawResume(t)
    \/ \E k \in Keys : GattCallback(k)
    \/ GattLinkLoss
    \/ LoopRun

SpecClient == InitClient /\ [][NextClient]_vars

\* ============================================================ native thread
\* the client constructed with or without disconnected_callback, its callback
\* entry points run by the native thread, and notifications
InitNative ==
    /\ InitTables
    /\ nobjs = 0
    /\ InitClientVars
    /\ InitThreadVars
    /\ disconnected_callback \in {0, 1}
    /\ InitOtherVars

NextNative ==
    \/ \E t \in Callers : Connect(t)
    \/ \E t \in Callers : ConnectConnected(t)
    \/ \E t \in Callers : ConnectDiscovered(t)
    \/ \E t \in Callers : Disconnect(t)
    \/ \E t \in Callers : DisconnectDone(t)
    \/ \E t \in Callers, h \in Handles, u \in UserCallbacks : StartNotify(t, h, u)
    \/ \E t \in Callers : StartNotifyDone(t)
    \/ \E t \in Callers, h \in Handles : StopNotify(t, h)
    \/ \E t \in Callers : StopNotifyDone(t)
    \/ \E t \in Callers : PawReturn(t)
    \/ \E t \in Callers : PawResume(t)
    \/ \E k \in Keys : GattCallback(k)
    \/ GattLinkLoss
    \/ \E h \in Handles : ValueChanged(h)
    \/ \E h \in Handles : onCharacteristicChanged(h)
    \/ LoopRun

SpecNative == InitNative /\ [][NextNative]_vars


\* ============================================================ the session
\* one caller connects, asks is_connected() and disconnects
NextSession ==
    \/ \E t \in Callers : Connect(t)
    \/ \E t \in Callers : ConnectConnected(t)
    \/ \E t \in Callers : ConnectDiscovered(t)
    \/ \E t \in Callers : IsConnected(t)
    \/ \E t \in Callers : Disconnect(t)
    \/ \E t \in Callers : DisconnectDone(t)
    \/ \E t \in Callers : PawReturn(t)
    \/ \E t \in Callers : PawResume(t)
    \/ \E k \in Keys : GattCallback(k)
    \/ GattLinkLoss
    \/ LoopRun

SpecSession == InitClient /\ [][NextSession]_vars

\* ============================================================ writing
\* write_gatt_char (client.py 437-500) on characteristics of any properties

\* write_gatt_char with lines 468-480 left out: the write type asked for
WriteTypeRequested(response, props) ==
    IF response THEN "WRITE_TYPE_DEFAULT" ELSE "WRITE_TYPE_NO_RESPONSE"

\* write_gatt_char(), lines 468-486: the write type set on the Java object
\* for a characteristic that can be written
WriteType(response, props) ==
    LET forced == IF ~response /\ "write-without-response" \notin props
                  THEN TRUE ELSE response
        final == IF /\ forced
                    /\ "write" \notin props
                    /\ "write-without-response" \in props
                 THEN FALSE ELSE forced IN
    IF final THEN "WRITE_TYPE_DEFAULT" ELSE "WRITE_TYPE_NO_RESPONSE"

\* write_gatt_char(char_specifier, data, response), lines 453-494
WriteGattChar(t, h, response) ==
    LET fr == [Frame("write_gatt_char", 1, h, 0) EXCEPT !.response = response]
        raises(e) ==
            /\ task' = [task EXCEPT ![t] = [fr EXCEPT !.step = 0, !.out = Raise(e)]]
            /\ UNCHANGED <<futs, futures, inflight, running, states, queue, loopErrors,
                           unsolicited>> IN
    /\ CanStart(t)
    /\ IF ~resolved
       THEN raises(BleakError("was not found")) /\ UNCHANGED write_type
       ELSE IF properties[h] \cap WriteProperties = {}
       THEN raises(BleakError("does not support write operations"))
            /\ UNCHANGED write_type
       ELSE /\ write_type' = [write_type EXCEPT ![h] = WriteType(response, properties[h])]
            /\ IF callbacks = 0
               THEN raises(AttributeError("perform_and_wait"))
               ELSE perform_and_wait(t, callbacks, SiteWrite(h), fr, MaxClientFutures)
    /\ UNCHANGED nobjs
    /\ UNCHANGED clientVars
    /\ UNCHANGED threadVars
    /\ UNCHANGED <<scannerVars, winrtVars, properties>>

\* write_gatt_char(), lines 490-500: perform_and_wait returned or raised
WriteGattCharDone(t) ==
    /\ Continues(t, "write_gatt_char", 1)
    /\ OpDone(t, IF task[t].out.kind = "raise" THEN task[t].out ELSE Return(<<>>))
    /\ UNCHANGED <<futs, nobjs, futures, states, inflight, queue, loopErrors, unsolicited>>
    /\ UNCHANGED clientVars
    /\ UNCHANGED threadVars
    /\ UNCHANGED otherVars

\* the client of a peripheral whose characteristics have any write properties
InitWrite ==
    /\ InitTables
    /\ nobjs = 0
    /\ InitClientVars
    /\ InitThreadVars
    /\ disconnected_callback = 0
    /\ InitScannerVars
    /\ adapter_on = TRUE
    /\ InitWinRTVars
    /\ properties \in [Handles -> SUBSET WriteProperties]
    /\ write_type = [h \in Handles |-> "unset"]

NextWrite ==
    \/ \E t \in Callers : Connect(t)
    \/ \E t \in Callers : ConnectConnected(t)
    \/ \E t \in Callers : ConnectDiscovered(t)
    \/ \E t \in Callers, h \in Handles, response \in BOOLEAN : WriteGattChar(t, h, response)
    \/ \E t \in Callers : WriteGattCharDone(t)
    \/ \E t \in Callers : PawReturn(t)
    \/ \E t \in Callers : PawResume(t)
    \/ \E k \in Keys : GattCallback(k)
    \/ LoopRun

SpecWrite == InitWrite /\ [][NextWrite]_vars

\* ============================================================ the scanner
\* BleakScannerP4Android and its _PythonScanCallback (scanner.py); the scan
\* callback object has the one key 'onScan'

REGISTRATION_FAILED == "SCAN_FAILED_APPLICATION_REGISTRATION_FAILED"

\* _java.SCAN_FAILED_NAMES, lines 41-46
SCAN_FAILED_NAMES ==
    {"SCAN_FAILED_ALREADY_STARTED", REGISTRATION_FAILED,
     "SCAN_FAILED_FEATURE_UNSUPPORTED", "SCAN_FAILED_INTERNAL_ERROR"}

\* the error codes the stack reports in the model
ScanFailures == {REGISTRATION_FAILED, "SCAN_FAILED_INTERNAL_ERROR"}

otherThanScanner == <<coreVars, clientVars, threadVars, winrtVars, writeVars>>

\* start(), lines 79-100, or lines 79-136 when the scanner already has its
\* Java scanner: the class attribute is tested first, and a scanner without
\* Java scanner waits for the permissions before it goes on
start(s) ==
    /\ scn[s].pc = "idle"
    /\ scn[s].starts < MaxStarts
    /\ IF class_scanner # 0
       THEN /\ scn' = [scn EXCEPT ![s].starts = @ + 1, ![s].called = "start",
                                  ![s].out = Raised("BleakError", "already scanning")]
            /\ UNCHANGED class_scanner
       ELSE IF ~scn[s].javascanner
       THEN /\ scn' = [scn EXCEPT ![s].starts = @ + 1, ![s].called = "start", ![s].out = NoResult,
                                  ![s].callback = TRUE, ![s].pc = "permission"]
            /\ UNCHANGED class_scanner
       ELSE /\ scn' = [scn EXCEPT ![s].starts = @ + 1, ![s].called = "start", ![s].out = NoResult,
                                  ![s].pc = "scheduled"]
            /\ class_scanner' = s
    /\ UNCHANGED <<scanning, scanq, scanLoopErrors, nscan, adapter_on>>
    /\ UNCHANGED otherThanScanner

\* start(), lines 100-136: the permission request is answered and start()
\* resumes; the class attribute is assigned without a second test, and
\* wait_for schedules the perform_and_wait coroutine
permission_acknowledged(s) ==
    /\ scn[s].pc = "permission"
    /\ \E granted \in BOOLEAN :
         IF ~granted
         THEN /\ scn' = [scn EXCEPT ![s].pc = "idle",
                                    ![s].out = Raised("BleakError", "User denied access")]
              /\ UNCHANGED class_scanner
         ELSE IF ~adapter_on
         THEN /\ scn' = [scn EXCEPT ![s].pc = "idle",
                                    ![s].out = Raised("BleakError", "Bluetooth is not turned on")]
              /\ UNCHANGED class_scanner
         ELSE /\ scn' = [scn EXCEPT ![s].javascanner = TRUE, ![s].pc = "scheduled"]
              /\ class_scanner' = s
    /\ UNCHANGED <<scanning, scanq, scanLoopErrors, nscan, adapter_on>>
    /\ UNCHANGED otherThanScanner

\* the coroutine of lines 116-132 runs inside wait_for: perform_and_wait
\* (utils.py 27-45) stores a new future under 'onScan' and calls startScan on the
\* Java scanner bound at line 117; startScan is void, or throws
scanfuture(s) ==
    /\ scn[s].pc = "scheduled"
    /\ \E ret \in {"void", "throw"} :
         IF ret = "void"
         THEN /\ scn' = [scn EXCEPT ![s].fut = "pending", ![s].failure = "",
                                    ![s].pc = "wait"]
              /\ scanning' = scanning \cup {s}
         ELSE /\ scn' = [scn EXCEPT ![s].fut = "pending", ![s].failure = "",
                                    ![s].pc = "idle",
                                    ![s].out = Raised("JavaException", "startScan")]
              /\ UNCHANGED scanning
    /\ UNCHANGED <<class_scanner, scanq, scanLoopErrors, nscan, adapter_on>>
    /\ UNCHANGED otherThanScanner

\* lines 135-138: wait_for times out after 0.2 s, cancels the coroutine (and
\* with it the future it awaits) and start() returns
wait_for_timeout(s) ==
    /\ scn[s].pc = "wait"
    /\ scn[s].fut = "pending"
    /\ scn' = [scn EXCEPT ![s].fut = "cancelled", ![s].pc = "idle",
                          ![s].out = Returned("None")]
    /\ UNCHANGED <<class_scanner, scanning, scanq, scanLoopErrors, nscan, adapter_on>>
    /\ UNCHANGED otherThanScanner

\* _PythonScanCallback.onScanResult(result), lines 223-260, run by the native
\* thread: the device is stored, and the first result is posted to the
\* dispatcher ('onScan' not in self.states)
onScanResult(s) ==
    /\ s \in scanning
    /\ nscan < MaxScanEvents
    /\ nscan' = nscan + 1
    /\ scn' = [scn EXCEPT ![s].devices = TRUE]
    /\ scanq' = IF scn[s].seen THEN scanq
                ELSE Append(scanq, [scanner |-> s, failure |-> ""])
    /\ UNCHANGED <<class_scanner, scanning, scanLoopErrors, adapter_on>>
    /\ UNCHANGED otherThanScanner

\* _PythonScanCallback.onScanFailed(errorCode), lines 219-221: the stack could
\* not run the scan
onScanFailed(s, errorCode) ==
    /\ s \in scanning
    /\ nscan < MaxScanEvents
    /\ nscan' = nscan + 1
    /\ scanning' = scanning \ {s}
    /\ scanq' = Append(scanq, [scanner |-> s, failure |-> errorCode])
    /\ UNCHANGED <<class_scanner, scn, scanLoopErrors, adapter_on>>
    /\ UNCHANGED otherThanScanner

\* the loop runs _result_state_unthreadsafe (utils.py 55-77) of a scan callback
\* object: with the one key 'onScan' an error without a pending future finds no
\* other pending future and is raised on the loop
scan_result_state_unthreadsafe ==
    /\ scanq # <<>>
    /\ scanq' = Tail(scanq)
    /\ LET ev == Head(scanq)
           s == ev.scanner IN
       IF scn[s].fut = "pending"
       THEN /\ scn' = [scn EXCEPT ![s].seen = TRUE,
                                  ![s].fut = IF ev.failure = "" THEN "result"
                                             ELSE "exception",
                                  ![s].failure = ev.failure]
            /\ UNCHANGED scanLoopErrors
       ELSE /\ scn' = [scn EXCEPT ![s].seen = TRUE]
            /\ scanLoopErrors' = IF ev.failure = "" THEN scanLoopErrors
                                 ELSE scanLoopErrors \cup {ev.failure}
    /\ UNCHANGED <<class_scanner, scanning, nscan, adapter_on>>
    /\ UNCHANGED otherThanScanner

\* __stop(), lines 188-193, on the record of scanner s
stopped(s) ==
    IF scn[s].javascanner THEN [scn EXCEPT ![s].javascanner = FALSE] ELSE scn

\* lines 135-171: the awaited future is done. A result ends start(). A
\* BleakError is followed by stop(); it is raised again unless it is the
\* registration failure, for which the adapter is switched off
start_resume(s) ==
    /\ scn[s].pc = "wait"
    /\ scn[s].fut \in {"result", "exception"}
    /\ IF scn[s].fut = "result"
       THEN /\ scn' = [scn EXCEPT ![s].pc = "idle", ![s].out = Returned("None")]
            /\ UNCHANGED <<class_scanner, scanning>>
       ELSE /\ scn' = [stopped(s) EXCEPT
                         ![s].pc = IF scn[s].failure = REGISTRATION_FAILED
                                   THEN "off" ELSE "idle",
                         ![s].out = IF scn[s].failure = REGISTRATION_FAILED
                                    THEN NoResult
                                    ELSE Raised("BleakError", scn[s].failure)]
            /\ class_scanner' = IF scn[s].javascanner THEN 0 ELSE class_scanner
            /\ scanning' = IF scn[s].javascanner THEN scanning \ {s} ELSE scanning
    /\ UNCHANGED <<scanq, scanLoopErrors, nscan, adapter_on>>
    /\ UNCHANGED otherThanScanner

\* __stop() without the test of line 190
javascanner_untested(s) == TRUE

\* __stop(), line 190: self.__javascanner is not None
javascanner_is_not_None(s) == scn[s].javascanner

\* stop(), lines 195-196: __stop() ends the scan of a scanner that has its
\* Java scanner and clears the class attribute, whoever it names; it does
\* nothing for a scanner without Java scanner
stop(s) ==
    /\ scn' = [stopped(s) EXCEPT ![s].called = "stop"]
    /\ class_scanner' = IF javascanner_is_not_None(s) THEN 0 ELSE class_scanner
    /\ scanning' = IF javascanner_is_not_None(s) THEN scanning \ {s} ELSE scanning
    /\ UNCHANGED <<scanq, scanLoopErrors, nscan, adapter_on>>
    /\ UNCHANGED otherThanScanner

\* lines 165-181: the adapter reports STATE_OFF (or STATE_ERROR) to the started
\* receiver; start() stops the receiver, calls adapter.enable() and waits for
\* stateOnFuture, whose receiver (line 177) is never started
adapter_off(s) ==
    /\ scn[s].pc = "off"
    /\ \E adapter_state \in {"STATE_OFF", "STATE_ERROR"} :
         IF adapter_state = "STATE_OFF"
         THEN /\ adapter_on' = FALSE
              /\ scn' = [scn EXCEPT ![s].pc = "on"]
         ELSE /\ scn' = [scn EXCEPT ![s].pc = "idle",
                                    ![s].out = Raised("BleakError", "Unexpected adapter state")]
              /\ UNCHANGED adapter_on
    /\ UNCHANGED <<class_scanner, scanning, scanq, scanLoopErrors, nscan>>
    /\ UNCHANGED otherThanScanner

\* the adapter enabled at line 180 is on again; no started receiver hears it
adapter_enabled ==
    /\ ~adapter_on
    /\ \E s \in Scanners : scn[s].pc = "on"
    /\ adapter_on' = TRUE
    /\ UNCHANGED <<class_scanner, scn, scanning, scanq, scanLoopErrors, nscan>>
    /\ UNCHANGED otherThanScanner

InitScanner ==
    /\ InitTables
    /\ nobjs = 0
    /\ InitClientVars
    /\ InitThreadVars
    /\ disconnected_callback = 0
    /\ InitScannerVars
    /\ adapter_on \in BOOLEAN
    /\ InitWinRTVars
    /\ InitWriteVars

NextScanner ==
    \/ \E s \in Scanners : start(s)
    \/ \E s \in Scanners : permission_acknowledged(s)
    \/ \E s \in Scanners : scanfuture(s)
    \/ \E s \in Scanners : wait_for_timeout(s)
    \/ \E s \in Scanners : start_resume(s)
    \/ \E s \in Scanners : stop(s)
    \/ \E s \in Scanners : onScanResult(s)
    \/ \E s \in Scanners, errorCode \in ScanFailures : onScanFailed(s, errorCode)
    \/ \E s \in Scanners : adapter_off(s)
    \/ adapter_enabled
    \/ scan_result_state_unthreadsafe

SpecScanner == InitScanner /\ [][NextScanner]_vars

\* the scanner with its scheduling: the event loop runs every coroutine that
\* can go on and every posted call (asyncio's ready queue), and the adapter
\* reports the state changes disable() and enable() ask for; the calls of the
\* user and the events of the scan are not forced
SpecScannerFair ==
    /\ SpecScanner
    /\ \A s \in Scanners : /\ WF_vars(permission_acknowledged(s))
                           /\ WF_vars(scanfuture(s))
                           /\ WF_vars(start_resume(s))
                           /\ WF_vars(adapter_off(s))
    /\ WF_vars(adapter_enabled)
    /\ WF_vars(scan_result_state_unthreadsafe)

\* ============================================================ the WinRT client
\* BleakClientWinRT (dotnet/winrt/client.py). A characteristic is named by its
\* handle (looked up in self.services) or by a BleakGATTCharacteristic object
\* the caller kept from self.services.

otherThanWinRT == <<coreVars, clientVars, threadVars, scannerVars, writeVars>>

\* a method of the WinRT client starts on the loop thread
WinCanStart(t) ==
    /\ wtask[t].pc = "idle"
    /\ \A u \in WinTasks : u < t => wtask[u].op # ""   \* tasks are numbered as they start

WinFrame(op, pc, h) == [pc |-> pc, op |-> op, handle |-> h, out |-> NoResult]

\* the method of task t hands back out
WinDone(t, out) == [wtask EXCEPT ![t] = [pc |-> "idle", op |-> wtask[t].op,
                                         handle |-> 0, out |-> out]]

\* set_disconnected_callback(callback), lines 207-216
set_disconnected_callback(callback) ==
    /\ winrt_disconnected_callback # callback
    /\ winrt_disconnected_callback' = callback
    /\ UNCHANGED <<wtask, requester, connection_status, status_token, dstatuses,
                   services_resolved, everResolved, disposed, notification_callbacks,
                   value_changed, ntokens, nstatus>>
    /\ UNCHANGED otherThanWinRT

\* the device changes its connection status and the stack runs the handler
\* registered at line 131, _ConnectionStatusChanged_Handler (lines 126-129):
\* it looks at self._disconnected_callback only, never at the status. Line 127
\* and the *args of line 129 depend on the object the binding passes as args:
\* the handler calls the callback, or raises before the call
_ConnectionStatusChanged_Handler(status) ==
    /\ nstatus < MaxStatusChanges
    /\ status # connection_status
    /\ status = "CONNECTED" => requester
    /\ nstatus' = nstatus + 1
    /\ connection_status' = status
    /\ IF status_token /\ winrt_disconnected_callback # 0
       THEN \E called \in BOOLEAN :
              dstatuses' = IF called THEN dstatuses \cup {status} ELSE dstatuses
       ELSE UNCHANGED dstatuses
    /\ UNCHANGED <<wtask, requester, status_token, winrt_disconnected_callback,
                   services_resolved, everResolved, disposed, notification_callbacks,
                   value_changed, ntokens>>
    /\ UNCHANGED otherThanWinRT

\* connect(), lines 97-98: up to `await discover(timeout=timeout)`
winrt_connect(t) ==
    /\ WinCanStart(t)
    /\ wtask' = [wtask EXCEPT ![t] = WinFrame("connect", "discover", 0)]
    /\ UNCHANGED <<requester, connection_status, status_token,
                   winrt_disconnected_callback, dstatuses, services_resolved,
                   everResolved, disposed, notification_callbacks, value_changed,
                   ntokens, nstatus>>
    /\ UNCHANGED otherThanWinRT

\* connect(), lines 98-123: the device is among the discovered ones, or not
winrt_discovered(t) ==
    /\ wtask[t].pc = "discover"
    /\ \E found \in BOOLEAN :
         wtask' = IF found THEN [wtask EXCEPT ![t].pc = "requester"]
                  ELSE WinDone(t, Raised("BleakError", "not found"))
    /\ UNCHANGED <<requester, connection_status, status_token,
                   winrt_disconnected_callback, dstatuses, services_resolved,
                   everResolved, disposed, notification_callbacks, value_changed,
                   ntokens, nstatus>>
    /\ UNCHANGED otherThanWinRT

\* connect(), lines 123-137, and get_services(), lines 226-230: the
\* BluetoothLEDevice is stored, the status handler is registered on it and the
\* services are asked for unless they are resolved
winrt_requester(t) ==
    /\ wtask[t].pc = "requester"
    /\ \E device \in BOOLEAN :
         IF ~device
         THEN /\ requester' = FALSE
              /\ wtask' = WinDone(t, Raised("AttributeError",
                                            "add_connection_status_changed"))
              /\ UNCHANGED status_token
         ELSE /\ requester' = TRUE
              /\ status_token' = TRUE
              /\ wtask' = IF services_resolved THEN WinDone(t, Returned("True"))
                          ELSE [wtask EXCEPT ![t].pc = "services"]
    /\ UNCHANGED <<connection_status, winrt_disconnected_callback, dstatuses,
                   services_resolved, everResolved, disposed, notification_callbacks,
                   value_changed, ntokens, nstatus>>
    /\ UNCHANGED otherThanWinRT

\* get_services(), lines 230-318, and connect(), lines 135-154: the services
\* and their characteristics are stored, or the failure status is raised
winrt_get_services(t) ==
    /\ wtask[t].pc = "services"
    /\ \E status \in {"SUCCESS", "UNREACHABLE"} :
         IF status = "SUCCESS"
         THEN /\ services_resolved' = TRUE
              /\ everResolved' = TRUE
              /\ disposed' = FALSE
              /\ wtask' = WinDone(t, Returned("True"))
         ELSE /\ wtask' = WinDone(t, Raised("BleakDotNetTaskError", "Could not get GATT services"))
              /\ UNCHANGED <<services_resolved, everResolved, disposed>>
    /\ UNCHANGED <<requester, connection_status, status_token,
                   winrt_disconnected_callback, dstatuses, notification_callbacks,
                   value_changed, ntokens, nstatus>>
    /\ UNCHANGED otherThanWinRT

\* the registry and the native handlers without the entry of handle h
\* (self._notification_callbacks.pop(handle); remove_value_changed(token))
popped(h) ==
    [registry |-> [notification_callbacks EXCEPT ![h] = 0],
     handlers |-> [value_changed EXCEPT ![h] = @ \ {notification_callbacks[h]}]]

\* disconnect(), lines 163-183: every registered handler is removed and the
\* registry cleared, the services are closed and forgotten, the status handler
\* is removed and the device closed; then the status is polled
winrt_disconnect(t) ==
    /\ WinCanStart(t)
    /\ IF ~services_resolved /\ \E h \in Handles : notification_callbacks[h] # 0
       THEN \* get_characteristic(handle) is None for the forgotten services
            /\ wtask' = [wtask EXCEPT ![t] =
                   [WinFrame("disconnect", "idle", 0) EXCEPT
                       !.out = Raised("AttributeError", "obj")]]
            /\ UNCHANGED <<requester, status_token, services_resolved, disposed,
                           notification_callbacks, value_changed>>
       ELSE /\ value_changed' = [h \in Handles |->
                                    value_changed[h] \ {notification_callbacks[h]}]
            /\ notification_callbacks' = [h \in Handles |-> 0]
            /\ disposed' = (disposed \/ services_resolved)
            /\ services_resolved' = FALSE
            /\ IF ~requester
               THEN /\ wtask' = [wtask EXCEPT ![t] =
                           [WinFrame("disconnect", "idle", 0) EXCEPT
                               !.out = Raised("AttributeError",
                                              "remove_connection_status_changed")]]
                    /\ UNCHANGED <<requester, status_token>>
               ELSE /\ status_token' = FALSE
                    /\ IF connection_status = "DISCONNECTED"
                       THEN /\ requester' = FALSE
                            /\ wtask' = [wtask EXCEPT ![t] =
                                   [WinFrame("disconnect", "idle", 0) EXCEPT
                                       !.out = Returned("True")]]
                       ELSE /\ wtask' = [wtask EXCEPT ![t] =
                                   WinFrame("disconnect", "sleep", 0)]
                            /\ UNCHANGED requester
    /\ UNCHANGED <<connection_status, winrt_disconnected_callback, dstatuses,
                   everResolved, ntokens, nstatus>>
    /\ UNCHANGED otherThanWinRT

\* disconnect(), lines 182-191: the sleep of the polling loop is over and the
\* device reports DISCONNECTED
winrt_disconnect_poll(t) ==
    /\ wtask[t].pc = "sleep"
    /\ ~requester \/ connection_status = "DISCONNECTED"
    /\ IF ~requester
       THEN wtask' = WinDone(t, Raised("AttributeError", "connection_status"))
       ELSE wtask' = WinDone(t, Returned("True"))
    /\ requester' = FALSE
    /\ UNCHANGED <<connection_status, status_token, winrt_disconnected_callback,
                   dstatuses, services_resolved, everResolved, disposed,
                   notification_callbacks, value_changed, ntokens, nstatus>>
    /\ UNCHANGED otherThanWinRT

\* the characteristic a method is called with exists: a handle is looked up
\* in self.services, an object is taken as it is
Characteristic(held) == IF held THEN everResolved ELSE services_resolved

\* _start_notify(), lines 608-621, entered by task t with the registry and the
\* native handlers being reg and han: add_value_changed registers the wrapper
\* and the entry is stored, or the call throws (an object of a closed service)
\* and ACCESS_DENIED makes start_notify raise
_start_notify(t, h, reg, han) ==
    \E added \in (IF disposed THEN BOOLEAN ELSE {TRUE}) :
       IF added
       THEN /\ ntokens' = ntokens + 1
            /\ value_changed' = [han EXCEPT ![h] = @ \cup {ntokens + 1}]
            /\ notification_callbacks' = [reg EXCEPT ![h] = ntokens + 1]
            /\ wtask' = [wtask EXCEPT ![t] = WinFrame("start_notify", "start_write", h)]
       ELSE /\ value_changed' = han
            /\ notification_callbacks' = reg
            /\ wtask' = [wtask EXCEPT ![t] =
                   [WinFrame("start_notify", "idle", 0) EXCEPT
                       !.out = Raised("BleakError", "Could not start notify")]]
            /\ UNCHANGED ntokens

\* line 564 without the look at the registry
SubscribedNever(h) == FALSE

\* line 564: self._notification_callbacks.get(characteristic.handle)
Subscribed(h) == notification_callbacks[h] # 0

\* start_notify(char_specifier, callback), lines 559-567
winrt_start_notify(t, h, held) ==
    /\ WinCanStart(t)
    /\ ntokens < MaxTokens
    /\ IF ~Characteristic(held)
       THEN /\ wtask' = [wtask EXCEPT ![t] =
                   [WinFrame("start_notify", "idle", 0) EXCEPT
                       !.out = Raised("BleakError", "not found")]]
            /\ UNCHANGED <<notification_callbacks, value_changed, ntokens>>
       ELSE IF Subscribed(h)
       THEN \* await self.stop_notify(characteristic): its write is awaited
            /\ wtask' = [wtask EXCEPT ![t] = WinFrame("start_notify", "stop_write", h)]
            /\ UNCHANGED <<notification_callbacks, value_changed, ntokens>>
       ELSE _start_notify(t, h, notification_callbacks, value_changed)
    /\ UNCHANGED <<requester, connection_status, status_token,
                   winrt_disconnected_callback, dstatuses, services_resolved,
                   everResolved, disposed, nstatus>>
    /\ UNCHANGED otherThanWinRT

\* _start_notify(), lines 621-634: the descriptor write is answered
winrt_start_written(t) ==
    /\ wtask[t].pc = "start_write"
    /\ LET h == wtask[t].handle IN
       \E status \in {"SUCCESS", "UNREACHABLE", "throw"} :
         IF status = "SUCCESS"
         THEN /\ wtask' = WinDone(t, Returned("None"))
              /\ UNCHANGED <<notification_callbacks, value_changed>>
         ELSE IF status = "throw"
         THEN /\ wtask' = WinDone(t, Raised("OSError", "write"))
              /\ UNCHANGED <<notification_callbacks, value_changed>>
         ELSE /\ wtask' = WinDone(t, Raised("BleakError", "Could not start notify"))
              /\ IF notification_callbacks[h] # 0
                 THEN /\ notification_callbacks' = popped(h).registry
                      /\ value_changed' = popped(h).handlers
                 ELSE UNCHANGED <<notification_callbacks, value_changed>>
    /\ UNCHANGED <<requester, connection_status, status_token,
                   winrt_disconnected_callback, dstatuses, services_resolved,
                   everResolved, disposed, ntokens, nstatus>>
    /\ UNCHANGED otherThanWinRT

\* stop_notify(char_specifier), lines 646-656: the descriptor write of NONE is
\* issued and awaited before the registry is looked at
winrt_stop_notify(t, h, held) ==
    /\ WinCanStart(t)
    /\ wtask' = [wtask EXCEPT ![t] =
           IF Characteristic(held) THEN WinFrame("stop_notify", "stop_write", h)
           ELSE [WinFrame("stop_notify", "idle", 0) EXCEPT
                    !.out = Raised("BleakError", "not found")]]
    /\ UNCHANGED <<requester, connection_status, status_token,
                   winrt_disconnected_callback, dstatuses, services_resolved,
                   everResolved, disposed, notification_callbacks, value_changed,
                   ntokens, nstatus>>
    /\ UNCHANGED otherThanWinRT

\* stop_notify(), lines 654-667: the write is answered; on SUCCESS the entry
\* is popped and its handler removed. The stop_notify awaited by start_notify
\* (line 565) is followed by _start_notify
winrt_stop_written(t) ==
    /\ wtask[t].pc = "stop_write"
    /\ LET h == wtask[t].handle IN
       \E status \in {"SUCCESS", "UNREACHABLE", "throw"} :
         IF status # "SUCCESS"
         THEN /\ wtask' = WinDone(t, IF status = "throw" THEN Raised("OSError", "write")
                                     ELSE Raised("BleakError", "Could not stop notify"))
              /\ UNCHANGED <<notification_callbacks, value_changed, ntokens>>
         ELSE IF notification_callbacks[h] = 0
         THEN /\ wtask' = WinDone(t, Raised("KeyError", "handle"))
              /\ UNCHANGED <<notification_callbacks, value_changed, ntokens>>
         ELSE IF wtask[t].op = "start_notify"
         THEN _start_notify(t, h, popped(h).registry, popped(h).handlers)
         ELSE /\ notification_callbacks' = popped(h).registry
              /\ value_changed' = popped(h).handlers
              /\ wtask' = WinDone(t, Returned("None"))
              /\ UNCHANGED ntokens
    /\ UNCHANGED <<requester, connection_status, status_token,
                   winrt_disconnected_callback, dstatuses, services_resolved,
                   everResolved, disposed, nstatus>>
    /\ UNCHANGED otherThanWinRT

InitWinRT ==
    /\ InitTables
    /\ nobjs = 0
    /\ InitClientVars
    /\ InitThreadVars
    /\ disconnected_callback = 0
    /\ InitOtherVars

NextWinRT ==
    \/ \E callback \in {0, 1} : set_disconnected_callback(callback)
    \/ \E status \in {"CONNECTED", "DISCONNECTED"} : _ConnectionStatusChanged_Handler(status)
    \/ \E t \in WinTasks : winrt_connect(t)
    \/ \E t \in WinTasks : winrt_discovered(t)
    \/ \E t \in WinTasks : winrt_requester(t)
    \/ \E t \in WinTasks : winrt_get_services(t)
    \/ \E t \in WinTasks : winrt_disconnect(t)
    \/ \E t \in WinTasks : winrt_disconnect_poll(t)
    \/ \E t \in WinTasks, h \in Handles, held \in BOOLEAN : winrt_start_notify(t, h, held)
    \/ \E t \in WinTasks : winrt_start_written(t)
    \/ \E t \in WinTasks, h \in Handles, held \in BOOLEAN : winrt_stop_notify(t, h, held)
    \/ \E t \in WinTasks : winrt_stop_written(t)

SpecWinRT == InitWinRT /\ [][NextWinRT]_vars

\* ============================================================ claims
Futs == 1..Len(futs)

\* a slot nobody resolved yet that the table or a caller still holds
Unresolved(f) ==
    /\ futs[f].st = "pending"
    /\ \/ futures[futs[f].cb][futs[f].key] = f
       \/ \E t \in InProgress : task[t].fut = f

Awaiting(t) == task[t].pc = "await" /\ ~Done(task[t].fut)

\* the loop is about to run the dispatcher on the event at the head of the queue
Dispatching ==
    running = 0 /\ queue # <<>> /\ Head(queue).fn = 0 /\ queue' = Tail(queue)

\* C1: there are never two unresolved result slots for the same key of one
\* callback object
C1_SingleSlotPerKey ==
    \A f, g \in Futs :
        (f # g /\ Unresolved(f) /\ Unresolved(g) /\ futs[f].cb = futs[g].cb)
        => futs[f].key # futs[g].key

\* C2: two concurrent perform_and_wait calls with the same key and
\* unless_already = True issue exactly one native call between them, and both
\* receive the same payload
C2_DedupOneCall ==
    \A t, u \in Tasks :
        (/\ u \in task[t].conc
         /\ task[t].site.unless_already /\ task[u].site.unless_already
         /\ task[t].site.key = task[u].site.key)
        => /\ task[t].calls + task[u].calls = 1
           /\ (task[t].pc = "done" /\ task[u].pc = "done") => task[t].out = task[u].out

\* C3: with the callbacks of one key delivered in the order of the requests,
\* a request is never completed by the callback of another request
C3_NoCrossDelivery ==
    \A f \in Futs : futs[f].by # 0 => futs[f].by = f

\* C4: once a slot holds a value or an error no step changes it
C4_ResolvedOnce ==
    [][\A f \in Futs : futs[f].st \in {"result", "exception"} => futs'[f] = futs[f]]_vars

\* a callback with failure status was dispatched for the key of a slot that
\* already held its value
C4_Witness ==
    \E f \in Futs :
        /\ futs[f].st = "result"
        /\ futures[futs[f].cb][futs[f].key] = f
        /\ states[futs[f].cb][futs[f].key].failure # NoFailure

\* C5: when a success callback for key k carrying payload P is dispatched,
\* every caller whose accepted request for k is waiting receives exactly P
C5_SuccessReachesCaller ==
    [][\A t \in Tasks :
          (/\ Dispatching
           /\ Awaiting(t)
           /\ Head(queue).cb = task[t].cb
           /\ Head(queue).source = task[t].site.key
           /\ Head(queue).failure = NoFailure)
          => /\ futs'[task[t].fut].st = "result"
             /\ futs'[task[t].fut].res = Head(queue).data]_vars

\* what perform_and_wait handed back where the await returned a payload that
\* does not start with resultExpected
MismatchOutcomes ==
    {task[t].out : t \in {u \in Tasks :
        /\ task[u].pc = "done" /\ ~task[u].fast /\ task[u].fut # 0
        /\ futs[task[u].fut].st = "result"
        /\ task[u].out.exc.type # "JavaException"
        /\ task[u].out.exc.msg # "api call failed"
        /\ ~_if_expected(futs[task[u].fut].res, task[u].site.expected).some}}

\* C6: a success callback whose leading fields differ from resultExpected
\* makes perform_and_wait fail with the BleakError ('Expected', ..., 'got', ...)
C6_UnexpectedResult ==
    \A o \in MismatchOutcomes :
        o.kind = "raise" /\ o.exc.type = "BleakError" /\ o.exc.msg = "Expected"

\* the label of a status: its name in GATT_STATUS_NAMES, else the raw code
StatusLabelOk(status, failure) ==
    IF status = GATT_ERROR THEN failure.kind = "name" /\ failure.name = "GATT_ERROR"
    ELSE failure.kind = "code" /\ failure.code = status

C8_NoSlotAfterRejection ==
    \A t \in Tasks :
        (/\ task[t].pc = "done"
         /\ task[t].site.return_indicates_status
         /\ task[t].fut # 0
         /\ \/ task[t].out.exc.type = "JavaException"
            \/ task[t].out.exc.msg = "api call failed")
        => futures[task[t].cb][task[t].site.key] # task[t].fut

\* C9: once the dispatcher has run for an unsolicited STATE_DISCONNECTED,
\* every perform_and_wait that was pending has failed with a BleakError
C9_DisconnectFailsAll ==
    [][(/\ Dispatching
        /\ Head(queue).op = 0
        /\ Head(queue).source = KeyConn
        /\ Head(queue).data = <<"STATE_DISCONNECTED">>)
       => \A t \in Tasks : task[t].pc = "await" =>
              /\ futs'[task[t].fut].st = "exception"
              /\ futs'[task[t].fut].exc.type = "BleakError"]_vars

\* the session becomes Disconnected: the dispatcher runs for a
\* STATE_DISCONNECTED of the client's callback object, or disconnect() returns
BecomesDisconnected ==
    \/ /\ Dispatching
       /\ Head(queue).cb = callbacks
       /\ Head(queue).source = KeyConn
       /\ Head(queue).data = <<"STATE_DISCONNECTED">>
    \/ \E t \in Tasks :
         /\ task[t].op = "disconnect" /\ task[t].pc # "idle"
         /\ task'[t].pc = "idle" /\ task'[t].out.kind = "return"

\* C10: whenever the session becomes Disconnected the subscription registry
\* is empty afterwards
C10_RegistryEmptyOnDisconnect ==
    [][BecomesDisconnected => \A h \in Handles : subscriptions'[h] = 0]_vars

\* a callback entry point posts a call onto the loop in this step
Posted == Len(queue') = Len(queue) + 1

\* the stack reports STATE_DISCONNECTED through onConnectionStateChange
DisconnectReported ==
    /\ Posted
    /\ queue'[Len(queue')].fn = 0
    /\ queue'[Len(queue')].source = KeyConn
    /\ queue'[Len(queue')].data = <<"STATE_DISCONNECTED">>

\* C11: with a disconnected callback set, every STATE_DISCONNECTED the stack
\* reports without having been asked calls it exactly once, and it is never
\* called otherwise than once per reported STATE_DISCONNECTED
C11_DisconnectedCallbackOnce ==
    [][disconnected_callback # 0 =>
          /\ (DisconnectReported /\ queue'[Len(queue')].op = 0) => dcalls' = dcalls + 1
          /\ dcalls' # dcalls => (DisconnectReported /\ dcalls' = dcalls + 1)]_vars

\* a link loss was reported to a client that has a disconnected callback
C11_Witness ==
    /\ disconnected_callback # 0
    /\ dcalls = 1
    /\ \E i \in 1..Len(queue) :
          /\ queue[i].fn = 0 /\ queue[i].op = 0
          /\ queue[i].source = KeyConn /\ queue[i].data = <<"STATE_DISCONNECTED">>

\* C12: the disconnected callback is only ever called on the event loop thread
C12_DisconnectedCallbackOnLoop ==
    \A x \in touched :
        (x.obj = "disconnected_callback" /\ x.mode = "call") => x.thread = "loop"

\* C13: an invocation of perform_and_wait that returns the stored payload
\* without waiting calls dispatchApi zero times, every other invocation
\* calls it exactly once
C13_OneNativeCall ==
    \A t \in Tasks :
        task[t].pc # "idle" => task[t].calls = (IF task[t].fast THEN 0 ELSE 1)

\* task t calls start_notify in this step
StartsNotify(t) ==
    /\ task[t].pc = "idle"
    /\ task'[t] # task[t]
    /\ task'[t].op = "start_notify"

\* the session is Connected/Ready: services are resolved and the last
\* connection state dispatched for the client's callback object is
\* STATE_CONNECTED
SessionReady ==
    /\ resolved
    /\ callbacks > 0
    /\ states[callbacks][KeyConn].data = <<"STATE_CONNECTED">>

\* C14: start_notify called while the session is not Connected/Ready is
\* rejected with an error and issues no native call
C14_RejectedWhenNotConnected ==
    [][\A t \in Tasks :
          (StartsNotify(t) /\ ~SessionReady)
          => /\ task'[t].out.kind = "raise"
             /\ task'[t].calls = 0
             /\ notifying' = notifying]_vars

\* C15: every write the callbacks make to futures, states and the futures'
\* outcomes runs on the event loop thread, and a step of a native-thread entry
\* point leaves futures, states and the subscription registry as they are
C15_TablesMutatedOnLoop ==
    /\ [](\A x \in touched : x.mode = "write" => x.thread = "loop")
    /\ [][(Posted \/ changed' # changed)
            => UNCHANGED <<futures, states, futs, subscriptions>>]_vars

\* the dispatcher stored a state and resolved a slot for callbacks the native
\* thread delivered
C15_Witness ==
    /\ Touch("states", "write", "loop") \in touched
    /\ Touch("futures", "write", "loop") \in touched
    /\ \E f \in Futs : futs[f].by # 0

\* C16: no callback entry point touches shared Python state on the native
\* thread
C16_NoNativeAccess ==
    \A x \in touched : x.thread # "native"

\* C17: when the dispatcher resolves the pending slot of a key, the key is no
\* longer in the table afterwards
C17_KeyRemovedOnResolve ==
    [][\A c \in Objs, k \in Keys :
          (/\ Dispatching
           /\ Head(queue).cb = c /\ Head(queue).source = k
           /\ SlotWaiting(c, k))
          => futures'[c][k] = 0]_vars

C19_LateCallbackHarmless ==
    [][\A c \in Objs, k \in Keys :
          (/\ Dispatching
           /\ Head(queue).cb = c /\ Head(queue).source = k
           /\ futures[c][k] # 0
           /\ futs[futures[c][k]].st = "cancelled")
          => /\ loopErrors' = loopErrors
             /\ futs' = futs]_vars

\* C20: start_notify for a handle that already has a callback raises and
\* leaves that callback in the registry
C20_AlreadySubscribed ==
    [][\A t \in Tasks, h \in Handles :
          (/\ StartsNotify(t)
           /\ task'[t].handle \in {0, h}
           /\ subscriptions[h] # 0)
          => /\ subscriptions'[h] = subscriptions[h]
             /\ task'[t].out.kind = "raise"]_vars

\* a client method of task t starts in this step
Starts(t, op) == task[t].pc = "idle" /\ task'[t] # task[t] /\ task'[t].op = op

\* C21: stop_notify for a characteristic without a subscription entry raises
\* at once, before any native operation is issued
C21_NotSubscribedAtOnce ==
    [][\A t \in Tasks :
          (Starts(t, "stop_notify") /\ subscriptions = NoSubscriptions)
          => /\ task'[t].out.kind = "raise"
             /\ inflight' = inflight
             /\ futs' = futs]_vars

\* C22: the entry point run for a value-changed event of a handle that has no
\* subscription entry posts no callback and raises nothing
C22_DroppedSilently ==
    [][\A h \in Handles :
          (changed'[h] < changed[h] /\ hasSubs /\ subscriptions[h] = 0)
          => /\ nativeErrors' = nativeErrors
             /\ queue' = queue
             /\ loopErrors' = loopErrors]_vars

\* C23: is_connected() returns True when the last connection state dispatched
\* is STATE_CONNECTED and False when it is STATE_DISCONNECTED
C23_IsConnected ==
    [][\A t \in Tasks :
          (/\ Starts(t, "is_connected")
           /\ callbacks > 0
           /\ states[callbacks][KeyConn].set)
          => /\ states[callbacks][KeyConn].data = <<"STATE_CONNECTED">>
                => task'[t].out = Return(<<"True">>)
             /\ states[callbacks][KeyConn].data = <<"STATE_DISCONNECTED">>
                => task'[t].out = Return(<<"False">>)]_vars

\* C24: disconnect() whose native disconnect was answered by a
\* STATE_DISCONNECTED callback returns True and resets the gatt, the callback
\* table and the services
C24_DisconnectResets ==
    [][\A t \in Tasks :
          (/\ Continues(t, "disconnect", 1)
           /\ task'[t].pc = "idle"
           /\ task[t].out.kind = "return"
           /\ ~task[t].fast)
          => /\ task'[t].out = Return(<<"True">>)
             /\ gatt' = "None"
             /\ callbacks' = 0
             /\ resolved' = FALSE]_vars

\* C27: a failure callback whose key has no pending slot fails every pending
\* slot of the object with that error, or is raised on the event loop when no
\* slot is pending
C27_OrphanFailureNotDropped ==
    [][(/\ Dispatching
        /\ Head(queue).failure # NoFailure
        /\ ~SlotWaiting(Head(queue).cb, Head(queue).source))
       => LET ev == Head(queue)
              e == StatusError(ev.source, ev.failure, ev.data) IN
          IF namedfutures(ev.cb) # {}
          THEN \A k \in namedfutures(ev.cb) :
                   /\ futs'[futures[ev.cb][k]].st = "exception"
                   /\ futs'[futures[ev.cb][k]].exc = e
          ELSE e \in loopErrors']_vars

\* discoverServices is handed to the stack in this step
IssuesDiscover ==
    /\ Len(inflight') = Len(inflight) + 1
    /\ inflight'[Len(inflight')].api = "discoverServices"

\* C30: connect() issues discoverServices only after STATE_CONNECTED was
\* reported with success, returns True only after onServicesDiscovered
\* reported success, and a step that failed ends connect() with its error
C30_ConnectInOrder ==
    [][\A t \in Tasks :
          /\ (task[t].op = "connect" /\ task'[t] # task[t] /\ IssuesDiscover)
             => /\ futs[task[t].fut].key = KeyConn
                /\ futs[task[t].fut].st = "result"
                /\ futs[task[t].fut].res = <<"STATE_CONNECTED">>
          /\ (task[t].op = "connect" /\ task[t].pc = "done" /\ task'[t].pc = "idle"
               /\ task'[t].out = Return(<<"True">>))
             => /\ futs[task[t].fut].key = KeyDisc
                /\ futs[task[t].fut].st = "result"
          /\ (task[t].op = "connect" /\ task[t].pc = "done"
               /\ task[t].out.kind = "raise" /\ task'[t] # task[t])
             => /\ task'[t].pc = "idle"
                /\ task'[t].out = task[t].out
                /\ inflight' = inflight]_vars

\* connect() returned True
C30_Witness ==
    \E t \in Tasks : task[t].op = "connect" /\ task[t].pc = "idle"
                      /\ task[t].out = Return(<<"True">>)

\* C25: never two scanners with a running scan, and a start() called while
\* the class attribute names another scanner raises and starts no scan
C25_OneScannerScanning ==
    /\ [](Cardinality(scanning) <= 1)
    /\ [][\A s \in Scanners :
             (/\ scn[s].pc = "idle"
              /\ scn'[s].starts = scn[s].starts + 1
              /\ class_scanner \notin {0, s})
             => /\ scn'[s].out.kind = "BleakError"
                /\ scn'[s].pc = "idle"
                /\ scanning' = scanning]_vars

\* C26: a start() whose native scan failed raises that error to its caller
\* and goes on to nothing else
C26_NoTransparentRetry ==
    [][\A s \in Scanners :
          (scn[s].pc = "wait" /\ scn[s].fut = "exception" /\ scn'[s].pc # "wait")
          => /\ scn'[s].pc = "idle"
             /\ scn'[s].out = Raised("BleakError", scn[s].failure)]_vars

\* C28: the disconnected callback of the WinRT client is called for no
\* connection status but DISCONNECTED
C28_OnlyOnDisconnected ==
    dstatuses \subseteq {"DISCONNECTED"}

\* disconnect() of the WinRT client returns in this step
WinDisconnectReturns(t) ==
    /\ wtask'[t] # wtask[t]
    /\ wtask'[t].op = "disconnect"
    /\ wtask'[t].pc = "idle"
    /\ wtask'[t].out.kind = "return"

\* C29: when disconnect() of the WinRT client returns, the registry is empty
\* and no handler of the client is left on a native characteristic
C29_NothingLeftRegistered ==
    [][\A t \in WinTasks :
          WinDisconnectReturns(t)
          => /\ \A h \in Handles : notification_callbacks'[h] = 0
             /\ \A h \in Handles : value_changed'[h] = {}]_vars

\* C31: perform_and_wait entered with unless_already = True on a key whose
\* stored future is done with a failure, or with a payload that does not
\* match resultExpected, makes a new future and calls dispatchApi
C31_StaleOutcomeNotReused ==
    [][\A t \in Tasks :
          (/\ task[t].pc = "idle"
           /\ task'[t] # task[t]
           /\ task'[t].op = "paw"
           /\ FoundDone(1, task'[t].site)
           /\ LET f == futs[futures[1][task'[t].site.key]] IN
                 \/ f.st = "exception"
                 \/ f.st = "result" /\ ~_if_expected(f.res, task'[t].site.expected).some)
          => /\ task'[t].pc = "incall"
             /\ task'[t].calls = 1
             /\ task'[t].fut = Len(futs) + 1
             /\ futures'[1][task'[t].site.key] = Len(futs) + 1]_vars

C33_OwnCallback ==
    \A t, u \in Tasks :
       (/\ t # u
        /\ task[t].op \in {"start_notify", "stop_notify"}
        /\ task[u].op \in {"start_notify", "stop_notify"}
        /\ task[t].handle # 0 /\ task[u].handle # 0
        /\ task[t].handle # task[u].handle
        /\ task[t].fut # 0 /\ task[u].fut # 0)
       => futs[task[t].fut].by # task[u].fut

\* C34: disconnect() called when the last connection state dispatched for the
\* client's callback object is STATE_DISCONNECTED (the link was lost) does not
\* go on to await a future that only another connection-state callback completes
C34_NoFurtherWait ==
    [][\A t \in Callers :
          (/\ task[t].op = "disconnect" /\ task[t].pc = "incall"
           /\ gatt # "None" /\ callbacks > 0 /\ resolved
           /\ link = 0 /\ queue = <<>>
           /\ states[callbacks][KeyConn].data = <<"STATE_DISCONNECTED">>)
          => ~(task'[t].pc = "await" /\ ~Done(task'[t].fut))]_vars

\* C35: after stop_notify has returned for a characteristic and left it
\* without a subscription entry, the loop invokes no notification callback
\* for that characteristic
C35_NotInvokedAfterStop ==
    [][\A t \in Callers :
          (/\ queue # <<>> /\ queue' = Tail(queue)
           /\ Head(queue).fn # 0
           /\ task[t].pc = "idle" /\ task[t].op = "stop_notify"
           /\ task[t].out.kind = "return")
          => subscriptions[Head(queue).source[2]] = Head(queue).fn]_vars

\* C36: a start_notify that raises before it awaits anything (the notification
\* enable is rejected among the causes) leaves the subscription registry as it
\* was when it was called
C36_RegistryRestored ==
    [][\A t \in Tasks :
          (Starts(t, "start_notify") /\ task'[t].out.kind = "raise")
          => subscriptions' = subscriptions]_vars

\* C37: when the failure of the active scanner's native scan is dispatched
\* after its start() has returned, the class attribute stops naming it
C37_GuardReleasedOnFailure ==
    [][\A s \in Scanners :
          (/\ scanq # <<>> /\ scanq' = Tail(scanq)
           /\ Head(scanq).scanner = s /\ Head(scanq).failure # ""
           /\ scn[s].pc = "idle" /\ scn[s].out = Returned("None")
           /\ class_scanner = s)
          => class_scanner' # s]_vars

\* C38: a start() that met the registration failure and switches the adapter
\* off eventually returns (or raises), the adapter reporting the state changes
C38_StartReturns ==
    \A s \in Scanners : (scn[s].pc = "off") ~> (scn[s].pc = "idle")

\* C39: write_gatt_char sets WRITE_TYPE_DEFAULT exactly when a response was
\* requested and 'write' is supported, or 'write-without-response' is not
\* supported, and the type it sets is one the characteristic supports; with
\* neither property it raises BleakError and makes no native call
C39_SupportedWriteType ==
    [][\A t \in Callers :
          (Starts(t, "write_gatt_char") /\ resolved)
          => LET h == task'[t].handle
                 W == "write" \in properties[h]
                 N == "write-without-response" \in properties[h] IN
             IF ~W /\ ~N
             THEN /\ task'[t].out.kind = "raise"
                  /\ task'[t].out.exc.type = "BleakError"
                  /\ task'[t].pc = "idle"
                  /\ write_type' = write_type
                  /\ inflight' = inflight /\ futs' = futs
             ELSE /\ write_type'[h] = "WRITE_TYPE_DEFAULT"
                        <=> ((task'[t].response /\ W) \/ ~N)
                  /\ write_type'[h] = "WRITE_TYPE_NO_RESPONSE"
                        <=> ~((task'[t].response /\ W) \/ ~N)
                  /\ write_type'[h] = "WRITE_TYPE_DEFAULT" => W
                  /\ write_type'[h] = "WRITE_TYPE_NO_RESPONSE" => N]_vars

C39_Witness ==
    \E t \in Callers :
       /\ task[t].op = "write_gatt_char" /\ task[t].pc = "await"
       /\ ~task[t].response
       /\ properties[task[t].handle] = {"write"}
       /\ write_type[task[t].handle] = "WRITE_TYPE_DEFAULT"
       /\ \E i \in 1..Len(inflight) : inflight[i].api = "writeCharacteristic"

\* C40: stop() called on a scanner without Java scanner (it never started, or
\* it was stopped) leaves the class attribute and the scans the stack runs as
\* they were
C40_StopOfInactive ==
    [][\A s \in Scanners :
          (/\ ~scn[s].javascanner
           /\ scn[s].called # "stop" /\ scn'[s].called = "stop")
          => /\ class_scanner' = class_scanner
             /\ scanning' = scanning]_vars

C40_Witness ==
    \E s, a \in Scanners :
       /\ s # a
       /\ scn[s].called = "stop" /\ scn[s].starts = 0
       /\ class_scanner = a /\ a \in scanning

====
